---------------------------- MODULE Spec2Model ----------------------------
(***************************************************************************)
(* A model of the ncbf-music-manager presentation text extractor: format   *)
(* detection (crates/core/src/types.rs and the front ends), the legacy PPT *)
(* record parser (crates/ppt/src/parser.rs) with its text decoding,        *)
(* content filtering and slide assembly, the slide ordering, line ordering *)
(* and shape extraction of the PPTX parser (crates/pptx/src/parser.rs),    *)
(* the text normalizer with its title matching                             *)
(* (crates/core/src/normalize.rs) and the ProPresenter output              *)
(* (crates/core/src/propresenter.rs and the front ends).                   *)
(*                                                                         *)
(* Byte buffers are sequences of integers 0..255.  Text is a sequence of   *)
(* Unicode code points.  An Option<T> is the empty sequence (None) or a    *)
(* one-element sequence (Some).                                            *)
(***************************************************************************)
EXTENDS Integers, Sequences, FiniteSets, TLC

VARIABLES
    \* ---- format detection (one call of a front end's detection code)
    dData,      \* the input buffer / the file's bytes
    dName,      \* the file name
    dPc,        \* "start", then the operation that ran
    dMagic,     \* what from_magic returned, "unset" before
    dExtAsked,  \* whether from_extension was called
    dResult,    \* the detected format or the error
    \* ---- text decoding and filtering (one text-run record's body)
    tBytes,     \* the body of a text-run record
    tCode,      \* the u32 of the Text-Header in force, as limbs
    tPc,        \* "start", "decoded", "filtered"
    tText,      \* Option<String>: what the decoder returned
    tKept,      \* is_valid_slide_text's answer, "unset" before
    \* ---- PptParser::parse on one "PowerPoint Document" stream
    pBuild,     \* the build: width of usize and overflow behaviour
    pFile,      \* what the file is: "ok", "not_cfb", "no_stream", "unreadable"
    pData,      \* the "PowerPoint Document" stream of the file
    pPc,        \* "open", "no_stream", "start", "scan", "validated", "parse", "done", "failed",
                \* "panicked"
    pStack,     \* the active calls of the recursive traversal, innermost
                \* last: [pos, end] of each call's loop
    pVal,       \* the FileValidation tally
    pResult,    \* "none", "Ok", an Error kind, or "Panic"
    pCurType,   \* current_text_type
    pPersist,   \* slide_persist_count
    pEntries,   \* the TextEntry list
    pSlides,    \* the slides of the returned Presentation
    pVTrace,    \* history: the record headers the validation pass read
    pETrace,    \* history: the record headers the extraction pass read
    pSeen,      \* history: the text runs the extraction pass decoded, each
                \* with its index in pETrace and the text type in force
    \* ---- Unicode text decoding and filtering (one Text-Chars record's body)
    uBytes,     \* the body of the record
    uPc,        \* "start", "decoded", "filtered"
    uText,      \* Option<String>: what extract_unicode_text returned
    uKept,      \* is_valid_slide_text's answer, "unset" before
    \* ---- organize_into_slides on one list of text entries
    sEntries,   \* the TextEntry list
    sPc,        \* "start", "done"
    sByHint,    \* history: the groups of the grouping loop
    sGroups,    \* history: the groups the slides are made of
    sSlides,    \* the returned slides
    \* ---- PptxParser::parse on one relationships manifest
    xRels,      \* the Relationship elements, in manifest order
    xPc,        \* "start", "done"
    xOrder,     \* the slide paths get_slide_order returned
    xSlides,    \* the slides of the returned Presentation
    \* ---- PptxParser::parse_slide on the shapes of one slide
    hShapes,    \* the shapes extract_shapes_from_xml found, in discovery order
    hPc,        \* "start", "done"
    hLines,     \* the lines of the slide
    \* ---- TextNormalizer::normalize_line on one text
    nText,      \* the input text
    nPreserve,  \* preserve_line_breaks
    nPc,        \* "start", "once", "twice"
    nStage,     \* history: the output of the character loop of the first call
    nOut,       \* what the first call returned
    nOut2,      \* what the call on nOut returned
    \* ---- calculate_similarity on two comparison-normalized strings
    mA,         \* the first string
    mB,         \* the second string
    mPc,        \* "start", "done"
    mSim,       \* the score, as the fraction [num, den]
    \* ---- normalize_presentation_with_title on one Presentation
    wSlides,    \* the slides: each the sequence of the texts of its lines
    wFile,      \* the file name
    wPreserve,  \* preserve_line_breaks of the normalizer
    wPc,        \* "start", "done"
    wTitle,     \* Option<String>: the detected title
    wIdx,       \* history: title_text_indices
    wLines,     \* the returned lines
    \* ---- formatting for ProPresenter
    fLines,     \* the lines
    fN,         \* lines_per_slide as the caller gave it
    fChecks,    \* the build has overflow checks (debug profile)
    fTitle,     \* Option<String>: the title the caller gave
    fPc,        \* "start", then "formatted", "returned" or "panicked"
    fText,      \* the returned text
    fCount,     \* slide_count of the FormatResult
    \* ---- extract_shapes_from_xml on the events of one slide file
    eXml,       \* the events the reader yields, in document order
    ePc,        \* "reading", "done"
    ePos,       \* the index of the next event
    eState,     \* current_shape, in_text_body, in_paragraph, current_text, shapes
    eShapes     \* the ShapeInfo values returned

detectVars == <<dData, dName, dPc, dMagic, dExtAsked, dResult>>
textVars == <<tBytes, tCode, tPc, tText, tKept>>

pptVars == <<pBuild, pFile, pData, pPc, pStack, pVal, pResult, pCurType, pPersist,
             pEntries, pSlides, pVTrace, pETrace, pSeen>>

unicodeVars == <<uBytes, uPc, uText, uKept>>
slideVars == <<sEntries, sPc, sByHint, sGroups, sSlides>>
pptxVars == <<xRels, xPc, xOrder, xSlides, hShapes, hPc, hLines>>
normVars == <<nText, nPreserve, nPc, nStage, nOut, nOut2>>

laterVars == <<unicodeVars, slideVars, pptxVars, normVars>>

simVars == <<mA, mB, mPc, mSim>>
titleVars == <<wSlides, wFile, wPreserve, wPc, wTitle, wIdx, wLines>>
fmtVars == <<fLines, fN, fChecks, fTitle, fPc, fText, fCount>>
xmlVars == <<eXml, ePc, ePos, eState, eShapes>>

lastVars == <<simVars, titleVars, fmtVars, xmlVars>>

vars == <<detectVars, textVars, pptVars, laterVars, lastVars>>

None == <<>>
Some(x) == <<x>>

-----------------------------------------------------------------------------
(* Generic helpers on sequences                                            *)

StartsWith(s, p) ==
    /\ Len(s) >= Len(p)
    /\ \A i \in 1..Len(p) : s[i] = p[i]

Take(s, n) == SubSeq(s, 1, IF n < Len(s) THEN n ELSE Len(s))

Repeat(b, n) == [i \in 1..n |-> b]

\* Index of the last "." (46) of s, 0 when there is none.
LastDot(s) ==
    LET dots == {i \in 1..Len(s) : s[i] = 46}
    IN  IF dots = {} THEN 0 ELSE CHOOSE i \in dots : \A j \in dots : j <= i

-----------------------------------------------------------------------------
(* Unicode tables of the standard library (core::unicode, Unicode 17.0),   *)
(* as inclusive ranges of code points.  The tables of the letters, the     *)
(* numbers and the lowercase mappings start at U+0100 and those of the two *)
(* case properties at U+0080; the characters below are tested directly.    *)

\* c lies in one of the inclusive ranges <<lo, hi>> of table.
InRanges(c, table) ==
    \E i \in DOMAIN table : table[i][1] <= c /\ c <= table[i][2]

\* The Alphabetic property.
AlphabeticRanges ==
    <<
       <<256, 705>>, <<710, 721>>, <<736, 740>>, <<748, 748>>, <<750, 750>>, <<837, 837>>,
       <<867, 884>>, <<886, 887>>, <<890, 893>>, <<895, 895>>, <<902, 902>>, <<904, 906>>,
       <<908, 908>>, <<910, 929>>, <<931, 1013>>, <<1015, 1153>>, <<1162, 1327>>, <<1329, 1366>>,
       <<1369, 1369>>, <<1376, 1416>>, <<1456, 1469>>, <<1471, 1471>>, <<1473, 1474>>, <<1476, 1477>>,
       <<1479, 1479>>, <<1488, 1514>>, <<1519, 1522>>, <<1552, 1562>>, <<1568, 1623>>, <<1625, 1631>>,
       <<1646, 1747>>, <<1749, 1756>>, <<1761, 1768>>, <<1773, 1775>>, <<1786, 1788>>, <<1791, 1791>>,
       <<1808, 1855>>, <<1869, 1969>>, <<1994, 2026>>, <<2036, 2037>>, <<2042, 2042>>, <<2048, 2071>>,
       <<2074, 2092>>, <<2112, 2136>>, <<2144, 2154>>, <<2160, 2183>>, <<2185, 2191>>, <<2199, 2199>>,
       <<2208, 2249>>, <<2260, 2271>>, <<2275, 2281>>, <<2288, 2363>>, <<2365, 2380>>, <<2382, 2384>>,
       <<2389, 2403>>, <<2417, 2435>>, <<2437, 2444>>, <<2447, 2448>>, <<2451, 2472>>, <<2474, 2480>>,
       <<2482, 2482>>, <<2486, 2489>>, <<2493, 2500>>, <<2503, 2504>>, <<2507, 2508>>, <<2510, 2510>>,
       <<2519, 2519>>, <<2524, 2525>>, <<2527, 2531>>, <<2544, 2545>>, <<2556, 2556>>, <<2561, 2563>>,
       <<2565, 2570>>, <<2575, 2576>>, <<2579, 2600>>, <<2602, 2608>>, <<2610, 2611>>, <<2613, 2614>>,
       <<2616, 2617>>, <<2622, 2626>>, <<2631, 2632>>, <<2635, 2636>>, <<2641, 2641>>, <<2649, 2652>>,
       <<2654, 2654>>, <<2672, 2677>>, <<2689, 2691>>, <<2693, 2701>>, <<2703, 2705>>, <<2707, 2728>>,
       <<2730, 2736>>, <<2738, 2739>>, <<2741, 2745>>, <<2749, 2757>>, <<2759, 2761>>, <<2763, 2764>>,
       <<2768, 2768>>, <<2784, 2787>>, <<2809, 2812>>, <<2817, 2819>>, <<2821, 2828>>, <<2831, 2832>>,
       <<2835, 2856>>, <<2858, 2864>>, <<2866, 2867>>, <<2869, 2873>>, <<2877, 2884>>, <<2887, 2888>>,
       <<2891, 2892>>, <<2902, 2903>>, <<2908, 2909>>, <<2911, 2915>>, <<2929, 2929>>, <<2946, 2947>>,
       <<2949, 2954>>, <<2958, 2960>>, <<2962, 2965>>, <<2969, 2970>>, <<2972, 2972>>, <<2974, 2975>>,
       <<2979, 2980>>, <<2984, 2986>>, <<2990, 3001>>, <<3006, 3010>>, <<3014, 3016>>, <<3018, 3020>>,
       <<3024, 3024>>, <<3031, 3031>>, <<3072, 3084>>, <<3086, 3088>>, <<3090, 3112>>, <<3114, 3129>>,
       <<3133, 3140>>, <<3142, 3144>>, <<3146, 3148>>, <<3157, 3158>>, <<3160, 3162>>, <<3164, 3165>>,
       <<3168, 3171>>, <<3200, 3203>>, <<3205, 3212>>, <<3214, 3216>>, <<3218, 3240>>, <<3242, 3251>>,
       <<3253, 3257>>, <<3261, 3268>>, <<3270, 3272>>, <<3274, 3276>>, <<3285, 3286>>, <<3292, 3294>>,
       <<3296, 3299>>, <<3313, 3315>>, <<3328, 3340>>, <<3342, 3344>>, <<3346, 3386>>, <<3389, 3396>>,
       <<3398, 3400>>, <<3402, 3404>>, <<3406, 3406>>, <<3412, 3415>>, <<3423, 3427>>, <<3450, 3455>>,
       <<3457, 3459>>, <<3461, 3478>>, <<3482, 3505>>, <<3507, 3515>>, <<3517, 3517>>, <<3520, 3526>>,
       <<3535, 3540>>, <<3542, 3542>>, <<3544, 3551>>, <<3570, 3571>>, <<3585, 3642>>, <<3648, 3654>>,
       <<3661, 3661>>, <<3713, 3714>>, <<3716, 3716>>, <<3718, 3722>>, <<3724, 3747>>, <<3749, 3749>>,
       <<3751, 3769>>, <<3771, 3773>>, <<3776, 3780>>, <<3782, 3782>>, <<3789, 3789>>, <<3804, 3807>>,
       <<3840, 3840>>, <<3904, 3911>>, <<3913, 3948>>, <<3953, 3971>>, <<3976, 3991>>, <<3993, 4028>>,
       <<4096, 4150>>, <<4152, 4152>>, <<4155, 4159>>, <<4176, 4239>>, <<4250, 4253>>, <<4256, 4293>>,
       <<4295, 4295>>, <<4301, 4301>>, <<4304, 4346>>, <<4348, 4680>>, <<4682, 4685>>, <<4688, 4694>>,
       <<4696, 4696>>, <<4698, 4701>>, <<4704, 4744>>, <<4746, 4749>>, <<4752, 4784>>, <<4786, 4789>>,
       <<4792, 4798>>, <<4800, 4800>>, <<4802, 4805>>, <<4808, 4822>>, <<4824, 4880>>, <<4882, 4885>>,
       <<4888, 4954>>, <<4992, 5007>>, <<5024, 5109>>, <<5112, 5117>>, <<5121, 5740>>, <<5743, 5759>>,
       <<5761, 5786>>, <<5792, 5866>>, <<5870, 5880>>, <<5888, 5907>>, <<5919, 5939>>, <<5952, 5971>>,
       <<5984, 5996>>, <<5998, 6000>>, <<6002, 6003>>, <<6016, 6067>>, <<6070, 6088>>, <<6103, 6103>>,
       <<6108, 6108>>, <<6176, 6264>>, <<6272, 6314>>, <<6320, 6389>>, <<6400, 6430>>, <<6432, 6443>>,
       <<6448, 6456>>, <<6480, 6509>>, <<6512, 6516>>, <<6528, 6571>>, <<6576, 6601>>, <<6656, 6683>>,
       <<6688, 6750>>, <<6753, 6772>>, <<6823, 6823>>, <<6847, 6848>>, <<6860, 6862>>, <<6912, 6963>>,
       <<6965, 6979>>, <<6981, 6988>>, <<7040, 7081>>, <<7084, 7087>>, <<7098, 7141>>, <<7143, 7153>>,
       <<7168, 7222>>, <<7245, 7247>>, <<7258, 7293>>, <<7296, 7306>>, <<7312, 7354>>, <<7357, 7359>>,
       <<7401, 7404>>, <<7406, 7411>>, <<7413, 7414>>, <<7418, 7418>>, <<7424, 7615>>, <<7635, 7668>>,
       <<7680, 7957>>, <<7960, 7965>>, <<7968, 8005>>, <<8008, 8013>>, <<8016, 8023>>, <<8025, 8025>>,
       <<8027, 8027>>, <<8029, 8029>>, <<8031, 8061>>, <<8064, 8116>>, <<8118, 8124>>, <<8126, 8126>>,
       <<8130, 8132>>, <<8134, 8140>>, <<8144, 8147>>, <<8150, 8155>>, <<8160, 8172>>, <<8178, 8180>>,
       <<8182, 8188>>, <<8305, 8305>>, <<8319, 8319>>, <<8336, 8348>>, <<8450, 8450>>, <<8455, 8455>>,
       <<8458, 8467>>, <<8469, 8469>>, <<8473, 8477>>, <<8484, 8484>>, <<8486, 8486>>, <<8488, 8488>>,
       <<8490, 8493>>, <<8495, 8505>>, <<8508, 8511>>, <<8517, 8521>>, <<8526, 8526>>, <<8544, 8584>>,
       <<9398, 9449>>, <<11264, 11492>>, <<11499, 11502>>, <<11506, 11507>>, <<11520, 11557>>, <<11559, 11559>>,
       <<11565, 11565>>, <<11568, 11623>>, <<11631, 11631>>, <<11648, 11670>>, <<11680, 11686>>, <<11688, 11694>>,
       <<11696, 11702>>, <<11704, 11710>>, <<11712, 11718>>, <<11720, 11726>>, <<11728, 11734>>, <<11736, 11742>>,
       <<11744, 11775>>, <<11823, 11823>>, <<12293, 12295>>, <<12321, 12329>>, <<12337, 12341>>, <<12344, 12348>>,
       <<12353, 12438>>, <<12445, 12447>>, <<12449, 12538>>, <<12540, 12543>>, <<12549, 12591>>, <<12593, 12686>>,
       <<12704, 12735>>, <<12784, 12799>>, <<13312, 19903>>, <<19968, 42124>>, <<42192, 42237>>, <<42240, 42508>>,
       <<42512, 42527>>, <<42538, 42539>>, <<42560, 42606>>, <<42612, 42619>>, <<42623, 42735>>, <<42775, 42783>>,
       <<42786, 42888>>, <<42891, 42972>>, <<42993, 43013>>, <<43015, 43047>>, <<43072, 43123>>, <<43136, 43203>>,
       <<43205, 43205>>, <<43250, 43255>>, <<43259, 43259>>, <<43261, 43263>>, <<43274, 43306>>, <<43312, 43346>>,
       <<43360, 43388>>, <<43392, 43442>>, <<43444, 43455>>, <<43471, 43471>>, <<43488, 43503>>, <<43514, 43518>>,
       <<43520, 43574>>, <<43584, 43597>>, <<43616, 43638>>, <<43642, 43710>>, <<43712, 43712>>, <<43714, 43714>>,
       <<43739, 43741>>, <<43744, 43759>>, <<43762, 43765>>, <<43777, 43782>>, <<43785, 43790>>, <<43793, 43798>>,
       <<43808, 43814>>, <<43816, 43822>>, <<43824, 43866>>, <<43868, 43881>>, <<43888, 44010>>, <<44032, 55203>>,
       <<55216, 55238>>, <<55243, 55291>>, <<63744, 64109>>, <<64112, 64217>>, <<64256, 64262>>, <<64275, 64279>>,
       <<64285, 64296>>, <<64298, 64310>>, <<64312, 64316>>, <<64318, 64318>>, <<64320, 64321>>, <<64323, 64324>>,
       <<64326, 64433>>, <<64467, 64829>>, <<64848, 64911>>, <<64914, 64967>>, <<65008, 65019>>, <<65136, 65140>>,
       <<65142, 65276>>, <<65313, 65338>>, <<65345, 65370>>, <<65382, 65470>>, <<65474, 65479>>, <<65482, 65487>>,
       <<65490, 65495>>, <<65498, 65500>>, <<65536, 65547>>, <<65549, 65574>>, <<65576, 65594>>, <<65596, 65597>>,
       <<65599, 65613>>, <<65616, 65629>>, <<65664, 65786>>, <<65856, 65908>>, <<66176, 66204>>, <<66208, 66256>>,
       <<66304, 66335>>, <<66349, 66378>>, <<66384, 66426>>, <<66432, 66461>>, <<66464, 66499>>, <<66504, 66511>>,
       <<66513, 66517>>, <<66560, 66717>>, <<66736, 66771>>, <<66776, 66811>>, <<66816, 66855>>, <<66864, 66915>>,
       <<66928, 66938>>, <<66940, 66954>>, <<66956, 66962>>, <<66964, 66965>>, <<66967, 66977>>, <<66979, 66993>>,
       <<66995, 67001>>, <<67003, 67004>>, <<67008, 67059>>, <<67072, 67382>>, <<67392, 67413>>, <<67424, 67431>>,
       <<67456, 67461>>, <<67463, 67504>>, <<67506, 67514>>, <<67584, 67589>>, <<67592, 67592>>, <<67594, 67637>>,
       <<67639, 67640>>, <<67644, 67644>>, <<67647, 67669>>, <<67680, 67702>>, <<67712, 67742>>, <<67808, 67826>>,
       <<67828, 67829>>, <<67840, 67861>>, <<67872, 67897>>, <<67904, 67929>>, <<67968, 68023>>, <<68030, 68031>>,
       <<68096, 68099>>, <<68101, 68102>>, <<68108, 68115>>, <<68117, 68119>>, <<68121, 68149>>, <<68192, 68220>>,
       <<68224, 68252>>, <<68288, 68295>>, <<68297, 68324>>, <<68352, 68405>>, <<68416, 68437>>, <<68448, 68466>>,
       <<68480, 68497>>, <<68608, 68680>>, <<68736, 68786>>, <<68800, 68850>>, <<68864, 68903>>, <<68938, 68965>>,
       <<68969, 68969>>, <<68975, 68997>>, <<69248, 69289>>, <<69291, 69292>>, <<69296, 69297>>, <<69314, 69319>>,
       <<69370, 69372>>, <<69376, 69404>>, <<69415, 69415>>, <<69424, 69445>>, <<69488, 69505>>, <<69552, 69572>>,
       <<69600, 69622>>, <<69632, 69701>>, <<69745, 69749>>, <<69760, 69816>>, <<69826, 69826>>, <<69840, 69864>>,
       <<69888, 69938>>, <<69956, 69959>>, <<69968, 70002>>, <<70006, 70006>>, <<70016, 70079>>, <<70081, 70084>>,
       <<70094, 70095>>, <<70106, 70106>>, <<70108, 70108>>, <<70144, 70161>>, <<70163, 70196>>, <<70199, 70199>>,
       <<70206, 70209>>, <<70272, 70278>>, <<70280, 70280>>, <<70282, 70285>>, <<70287, 70301>>, <<70303, 70312>>,
       <<70320, 70376>>, <<70400, 70403>>, <<70405, 70412>>, <<70415, 70416>>, <<70419, 70440>>, <<70442, 70448>>,
       <<70450, 70451>>, <<70453, 70457>>, <<70461, 70468>>, <<70471, 70472>>, <<70475, 70476>>, <<70480, 70480>>,
       <<70487, 70487>>, <<70493, 70499>>, <<70528, 70537>>, <<70539, 70539>>, <<70542, 70542>>, <<70544, 70581>>,
       <<70583, 70592>>, <<70594, 70594>>, <<70597, 70597>>, <<70599, 70602>>, <<70604, 70605>>, <<70609, 70609>>,
       <<70611, 70611>>, <<70656, 70721>>, <<70723, 70725>>, <<70727, 70730>>, <<70751, 70753>>, <<70784, 70849>>,
       <<70852, 70853>>, <<70855, 70855>>, <<71040, 71093>>, <<71096, 71102>>, <<71128, 71133>>, <<71168, 71230>>,
       <<71232, 71232>>, <<71236, 71236>>, <<71296, 71349>>, <<71352, 71352>>, <<71424, 71450>>, <<71453, 71466>>,
       <<71488, 71494>>, <<71680, 71736>>, <<71840, 71903>>, <<71935, 71942>>, <<71945, 71945>>, <<71948, 71955>>,
       <<71957, 71958>>, <<71960, 71989>>, <<71991, 71992>>, <<71995, 71996>>, <<71999, 72002>>, <<72096, 72103>>,
       <<72106, 72151>>, <<72154, 72159>>, <<72161, 72161>>, <<72163, 72164>>, <<72192, 72242>>, <<72245, 72254>>,
       <<72272, 72343>>, <<72349, 72349>>, <<72368, 72440>>, <<72544, 72551>>, <<72640, 72672>>, <<72704, 72712>>,
       <<72714, 72758>>, <<72760, 72766>>, <<72768, 72768>>, <<72818, 72847>>, <<72850, 72871>>, <<72873, 72886>>,
       <<72960, 72966>>, <<72968, 72969>>, <<72971, 73014>>, <<73018, 73018>>, <<73020, 73021>>, <<73023, 73025>>,
       <<73027, 73027>>, <<73030, 73031>>, <<73056, 73061>>, <<73063, 73064>>, <<73066, 73102>>, <<73104, 73105>>,
       <<73107, 73110>>, <<73112, 73112>>, <<73136, 73179>>, <<73440, 73462>>, <<73472, 73488>>, <<73490, 73530>>,
       <<73534, 73536>>, <<73648, 73648>>, <<73728, 74649>>, <<74752, 74862>>, <<74880, 75075>>, <<77712, 77808>>,
       <<77824, 78895>>, <<78913, 78918>>, <<78944, 82938>>, <<82944, 83526>>, <<90368, 90414>>, <<92160, 92728>>,
       <<92736, 92766>>, <<92784, 92862>>, <<92880, 92909>>, <<92928, 92975>>, <<92992, 92995>>, <<93027, 93047>>,
       <<93053, 93071>>, <<93504, 93548>>, <<93760, 93823>>, <<93856, 93880>>, <<93883, 93907>>, <<93952, 94026>>,
       <<94031, 94087>>, <<94095, 94111>>, <<94176, 94177>>, <<94179, 94179>>, <<94192, 94198>>, <<94208, 101589>>,
       <<101631, 101662>>, <<101760, 101874>>, <<110576, 110579>>, <<110581, 110587>>, <<110589, 110590>>, <<110592, 110882>>,
       <<110898, 110898>>, <<110928, 110930>>, <<110933, 110933>>, <<110948, 110951>>, <<110960, 111355>>, <<113664, 113770>>,
       <<113776, 113788>>, <<113792, 113800>>, <<113808, 113817>>, <<113822, 113822>>, <<119808, 119892>>, <<119894, 119964>>,
       <<119966, 119967>>, <<119970, 119970>>, <<119973, 119974>>, <<119977, 119980>>, <<119982, 119993>>, <<119995, 119995>>,
       <<119997, 120003>>, <<120005, 120069>>, <<120071, 120074>>, <<120077, 120084>>, <<120086, 120092>>, <<120094, 120121>>,
       <<120123, 120126>>, <<120128, 120132>>, <<120134, 120134>>, <<120138, 120144>>, <<120146, 120485>>, <<120488, 120512>>,
       <<120514, 120538>>, <<120540, 120570>>, <<120572, 120596>>, <<120598, 120628>>, <<120630, 120654>>, <<120656, 120686>>,
       <<120688, 120712>>, <<120714, 120744>>, <<120746, 120770>>, <<120772, 120779>>, <<122624, 122654>>, <<122661, 122666>>,
       <<122880, 122886>>, <<122888, 122904>>, <<122907, 122913>>, <<122915, 122916>>, <<122918, 122922>>, <<122928, 122989>>,
       <<123023, 123023>>, <<123136, 123180>>, <<123191, 123197>>, <<123214, 123214>>, <<123536, 123565>>, <<123584, 123627>>,
       <<124112, 124139>>, <<124368, 124397>>, <<124400, 124400>>, <<124608, 124638>>, <<124640, 124661>>, <<124670, 124671>>,
       <<124896, 124902>>, <<124904, 124907>>, <<124909, 124910>>, <<124912, 124926>>, <<124928, 125124>>, <<125184, 125251>>,
       <<125255, 125255>>, <<125259, 125259>>, <<126464, 126467>>, <<126469, 126495>>, <<126497, 126498>>, <<126500, 126500>>,
       <<126503, 126503>>, <<126505, 126514>>, <<126516, 126519>>, <<126521, 126521>>, <<126523, 126523>>, <<126530, 126530>>,
       <<126535, 126535>>, <<126537, 126537>>, <<126539, 126539>>, <<126541, 126543>>, <<126545, 126546>>, <<126548, 126548>>,
       <<126551, 126551>>, <<126553, 126553>>, <<126555, 126555>>, <<126557, 126557>>, <<126559, 126559>>, <<126561, 126562>>,
       <<126564, 126564>>, <<126567, 126570>>, <<126572, 126578>>, <<126580, 126583>>, <<126585, 126588>>, <<126590, 126590>>,
       <<126592, 126601>>, <<126603, 126619>>, <<126625, 126627>>, <<126629, 126633>>, <<126635, 126651>>, <<127280, 127305>>,
       <<127312, 127337>>, <<127344, 127369>>, <<131072, 173791>>, <<173824, 178205>>, <<178208, 183981>>, <<183984, 191456>>,
       <<191472, 192093>>, <<194560, 195101>>, <<196608, 201546>>, <<201552, 210041>> >>

\* General categories Nd, Nl and No.
NumericRanges ==
    <<
       <<1632, 1641>>, <<1776, 1785>>, <<1984, 1993>>, <<2406, 2415>>, <<2534, 2543>>, <<2548, 2553>>,
       <<2662, 2671>>, <<2790, 2799>>, <<2918, 2927>>, <<2930, 2935>>, <<3046, 3058>>, <<3174, 3183>>,
       <<3192, 3198>>, <<3302, 3311>>, <<3416, 3422>>, <<3430, 3448>>, <<3558, 3567>>, <<3664, 3673>>,
       <<3792, 3801>>, <<3872, 3891>>, <<4160, 4169>>, <<4240, 4249>>, <<4969, 4988>>, <<5870, 5872>>,
       <<6112, 6121>>, <<6128, 6137>>, <<6160, 6169>>, <<6470, 6479>>, <<6608, 6618>>, <<6784, 6793>>,
       <<6800, 6809>>, <<6992, 7001>>, <<7088, 7097>>, <<7232, 7241>>, <<7248, 7257>>, <<8304, 8304>>,
       <<8308, 8313>>, <<8320, 8329>>, <<8528, 8578>>, <<8581, 8585>>, <<9312, 9371>>, <<9450, 9471>>,
       <<10102, 10131>>, <<11517, 11517>>, <<12295, 12295>>, <<12321, 12329>>, <<12344, 12346>>, <<12690, 12693>>,
       <<12832, 12841>>, <<12872, 12879>>, <<12881, 12895>>, <<12928, 12937>>, <<12977, 12991>>, <<42528, 42537>>,
       <<42726, 42735>>, <<43056, 43061>>, <<43216, 43225>>, <<43264, 43273>>, <<43472, 43481>>, <<43504, 43513>>,
       <<43600, 43609>>, <<44016, 44025>>, <<65296, 65305>>, <<65799, 65843>>, <<65856, 65912>>, <<65930, 65931>>,
       <<66273, 66299>>, <<66336, 66339>>, <<66369, 66369>>, <<66378, 66378>>, <<66513, 66517>>, <<66720, 66729>>,
       <<67672, 67679>>, <<67705, 67711>>, <<67751, 67759>>, <<67835, 67839>>, <<67862, 67867>>, <<68028, 68029>>,
       <<68032, 68047>>, <<68050, 68095>>, <<68160, 68168>>, <<68221, 68222>>, <<68253, 68255>>, <<68331, 68335>>,
       <<68440, 68447>>, <<68472, 68479>>, <<68521, 68527>>, <<68858, 68863>>, <<68912, 68921>>, <<68928, 68937>>,
       <<69216, 69246>>, <<69405, 69414>>, <<69457, 69460>>, <<69573, 69579>>, <<69714, 69743>>, <<69872, 69881>>,
       <<69942, 69951>>, <<70096, 70105>>, <<70113, 70132>>, <<70384, 70393>>, <<70736, 70745>>, <<70864, 70873>>,
       <<71248, 71257>>, <<71360, 71369>>, <<71376, 71395>>, <<71472, 71483>>, <<71904, 71922>>, <<72016, 72025>>,
       <<72688, 72697>>, <<72784, 72812>>, <<73040, 73049>>, <<73120, 73129>>, <<73184, 73193>>, <<73552, 73561>>,
       <<73664, 73684>>, <<74752, 74862>>, <<90416, 90425>>, <<92768, 92777>>, <<92864, 92873>>, <<93008, 93017>>,
       <<93019, 93025>>, <<93552, 93561>>, <<93824, 93846>>, <<94196, 94198>>, <<118000, 118009>>, <<119488, 119507>>,
       <<119520, 119539>>, <<119648, 119672>>, <<120782, 120831>>, <<123200, 123209>>, <<123632, 123641>>, <<124144, 124153>>,
       <<124401, 124410>>, <<125127, 125135>>, <<125264, 125273>>, <<126065, 126123>>, <<126125, 126127>>, <<126129, 126132>>,
       <<126209, 126253>>, <<126255, 126269>>, <<127232, 127244>>, <<130032, 130041>> >>

\* The Cased property.
CasedRanges ==
    <<
       <<170, 170>>, <<181, 181>>, <<186, 186>>, <<192, 214>>, <<216, 246>>, <<248, 442>>,
       <<444, 447>>, <<452, 659>>, <<662, 696>>, <<704, 705>>, <<736, 740>>, <<837, 837>>,
       <<880, 883>>, <<886, 887>>, <<890, 893>>, <<895, 895>>, <<902, 902>>, <<904, 906>>,
       <<908, 908>>, <<910, 929>>, <<931, 1013>>, <<1015, 1153>>, <<1162, 1327>>, <<1329, 1366>>,
       <<1376, 1416>>, <<4256, 4293>>, <<4295, 4295>>, <<4301, 4301>>, <<4304, 4346>>, <<4348, 4351>>,
       <<5024, 5109>>, <<5112, 5117>>, <<7296, 7306>>, <<7312, 7354>>, <<7357, 7359>>, <<7424, 7615>>,
       <<7680, 7957>>, <<7960, 7965>>, <<7968, 8005>>, <<8008, 8013>>, <<8016, 8023>>, <<8025, 8025>>,
       <<8027, 8027>>, <<8029, 8029>>, <<8031, 8061>>, <<8064, 8116>>, <<8118, 8124>>, <<8126, 8126>>,
       <<8130, 8132>>, <<8134, 8140>>, <<8144, 8147>>, <<8150, 8155>>, <<8160, 8172>>, <<8178, 8180>>,
       <<8182, 8188>>, <<8305, 8305>>, <<8319, 8319>>, <<8336, 8348>>, <<8450, 8450>>, <<8455, 8455>>,
       <<8458, 8467>>, <<8469, 8469>>, <<8473, 8477>>, <<8484, 8484>>, <<8486, 8486>>, <<8488, 8488>>,
       <<8490, 8493>>, <<8495, 8500>>, <<8505, 8505>>, <<8508, 8511>>, <<8517, 8521>>, <<8526, 8526>>,
       <<8544, 8575>>, <<8579, 8580>>, <<9398, 9449>>, <<11264, 11492>>, <<11499, 11502>>, <<11506, 11507>>,
       <<11520, 11557>>, <<11559, 11559>>, <<11565, 11565>>, <<42560, 42605>>, <<42624, 42653>>, <<42786, 42887>>,
       <<42891, 42894>>, <<42896, 42972>>, <<42993, 42998>>, <<43000, 43002>>, <<43824, 43866>>, <<43868, 43881>>,
       <<43888, 43967>>, <<64256, 64262>>, <<64275, 64279>>, <<65313, 65338>>, <<65345, 65370>>, <<66560, 66639>>,
       <<66736, 66771>>, <<66776, 66811>>, <<66928, 66938>>, <<66940, 66954>>, <<66956, 66962>>, <<66964, 66965>>,
       <<66967, 66977>>, <<66979, 66993>>, <<66995, 67001>>, <<67003, 67004>>, <<67456, 67456>>, <<67459, 67461>>,
       <<67463, 67504>>, <<67506, 67514>>, <<68736, 68786>>, <<68800, 68850>>, <<68944, 68965>>, <<68976, 68997>>,
       <<71840, 71903>>, <<93760, 93823>>, <<93856, 93880>>, <<93883, 93907>>, <<119808, 119892>>, <<119894, 119964>>,
       <<119966, 119967>>, <<119970, 119970>>, <<119973, 119974>>, <<119977, 119980>>, <<119982, 119993>>, <<119995, 119995>>,
       <<119997, 120003>>, <<120005, 120069>>, <<120071, 120074>>, <<120077, 120084>>, <<120086, 120092>>, <<120094, 120121>>,
       <<120123, 120126>>, <<120128, 120132>>, <<120134, 120134>>, <<120138, 120144>>, <<120146, 120485>>, <<120488, 120512>>,
       <<120514, 120538>>, <<120540, 120570>>, <<120572, 120596>>, <<120598, 120628>>, <<120630, 120654>>, <<120656, 120686>>,
       <<120688, 120712>>, <<120714, 120744>>, <<120746, 120770>>, <<120772, 120779>>, <<122624, 122633>>, <<122635, 122654>>,
       <<122661, 122666>>, <<122928, 122989>>, <<125184, 125251>>, <<127280, 127305>>, <<127312, 127337>>, <<127344, 127369>> >>

\* The Case_Ignorable property.
CaseIgnorableRanges ==
    <<
       <<168, 168>>, <<173, 173>>, <<175, 175>>, <<180, 180>>, <<183, 184>>, <<688, 879>>,
       <<884, 885>>, <<890, 890>>, <<900, 901>>, <<903, 903>>, <<1155, 1161>>, <<1369, 1369>>,
       <<1375, 1375>>, <<1425, 1469>>, <<1471, 1471>>, <<1473, 1474>>, <<1476, 1477>>, <<1479, 1479>>,
       <<1524, 1524>>, <<1536, 1541>>, <<1552, 1562>>, <<1564, 1564>>, <<1600, 1600>>, <<1611, 1631>>,
       <<1648, 1648>>, <<1750, 1757>>, <<1759, 1768>>, <<1770, 1773>>, <<1807, 1807>>, <<1809, 1809>>,
       <<1840, 1866>>, <<1958, 1968>>, <<2027, 2037>>, <<2042, 2042>>, <<2045, 2045>>, <<2070, 2093>>,
       <<2137, 2139>>, <<2184, 2184>>, <<2192, 2193>>, <<2199, 2207>>, <<2249, 2306>>, <<2362, 2362>>,
       <<2364, 2364>>, <<2369, 2376>>, <<2381, 2381>>, <<2385, 2391>>, <<2402, 2403>>, <<2417, 2417>>,
       <<2433, 2433>>, <<2492, 2492>>, <<2497, 2500>>, <<2509, 2509>>, <<2530, 2531>>, <<2558, 2558>>,
       <<2561, 2562>>, <<2620, 2620>>, <<2625, 2626>>, <<2631, 2632>>, <<2635, 2637>>, <<2641, 2641>>,
       <<2672, 2673>>, <<2677, 2677>>, <<2689, 2690>>, <<2748, 2748>>, <<2753, 2757>>, <<2759, 2760>>,
       <<2765, 2765>>, <<2786, 2787>>, <<2810, 2815>>, <<2817, 2817>>, <<2876, 2876>>, <<2879, 2879>>,
       <<2881, 2884>>, <<2893, 2893>>, <<2901, 2902>>, <<2914, 2915>>, <<2946, 2946>>, <<3008, 3008>>,
       <<3021, 3021>>, <<3072, 3072>>, <<3076, 3076>>, <<3132, 3132>>, <<3134, 3136>>, <<3142, 3144>>,
       <<3146, 3149>>, <<3157, 3158>>, <<3170, 3171>>, <<3201, 3201>>, <<3260, 3260>>, <<3263, 3263>>,
       <<3270, 3270>>, <<3276, 3277>>, <<3298, 3299>>, <<3328, 3329>>, <<3387, 3388>>, <<3393, 3396>>,
       <<3405, 3405>>, <<3426, 3427>>, <<3457, 3457>>, <<3530, 3530>>, <<3538, 3540>>, <<3542, 3542>>,
       <<3633, 3633>>, <<3636, 3642>>, <<3654, 3662>>, <<3761, 3761>>, <<3764, 3772>>, <<3782, 3782>>,
       <<3784, 3790>>, <<3864, 3865>>, <<3893, 3893>>, <<3895, 3895>>, <<3897, 3897>>, <<3953, 3966>>,
       <<3968, 3972>>, <<3974, 3975>>, <<3981, 3991>>, <<3993, 4028>>, <<4038, 4038>>, <<4141, 4144>>,
       <<4146, 4151>>, <<4153, 4154>>, <<4157, 4158>>, <<4184, 4185>>, <<4190, 4192>>, <<4209, 4212>>,
       <<4226, 4226>>, <<4229, 4230>>, <<4237, 4237>>, <<4253, 4253>>, <<4348, 4348>>, <<4957, 4959>>,
       <<5906, 5908>>, <<5938, 5939>>, <<5970, 5971>>, <<6002, 6003>>, <<6068, 6069>>, <<6071, 6077>>,
       <<6086, 6086>>, <<6089, 6099>>, <<6103, 6103>>, <<6109, 6109>>, <<6155, 6159>>, <<6211, 6211>>,
       <<6277, 6278>>, <<6313, 6313>>, <<6432, 6434>>, <<6439, 6440>>, <<6450, 6450>>, <<6457, 6459>>,
       <<6679, 6680>>, <<6683, 6683>>, <<6742, 6742>>, <<6744, 6750>>, <<6752, 6752>>, <<6754, 6754>>,
       <<6757, 6764>>, <<6771, 6780>>, <<6783, 6783>>, <<6823, 6823>>, <<6832, 6877>>, <<6880, 6891>>,
       <<6912, 6915>>, <<6964, 6964>>, <<6966, 6970>>, <<6972, 6972>>, <<6978, 6978>>, <<7019, 7027>>,
       <<7040, 7041>>, <<7074, 7077>>, <<7080, 7081>>, <<7083, 7085>>, <<7142, 7142>>, <<7144, 7145>>,
       <<7149, 7149>>, <<7151, 7153>>, <<7212, 7219>>, <<7222, 7223>>, <<7288, 7293>>, <<7376, 7378>>,
       <<7380, 7392>>, <<7394, 7400>>, <<7405, 7405>>, <<7412, 7412>>, <<7416, 7417>>, <<7468, 7530>>,
       <<7544, 7544>>, <<7579, 7679>>, <<8125, 8125>>, <<8127, 8129>>, <<8141, 8143>>, <<8157, 8159>>,
       <<8173, 8175>>, <<8189, 8190>>, <<8203, 8207>>, <<8216, 8217>>, <<8228, 8228>>, <<8231, 8231>>,
       <<8234, 8238>>, <<8288, 8292>>, <<8294, 8303>>, <<8305, 8305>>, <<8319, 8319>>, <<8336, 8348>>,
       <<8400, 8432>>, <<11388, 11389>>, <<11503, 11505>>, <<11631, 11631>>, <<11647, 11647>>, <<11744, 11775>>,
       <<11823, 11823>>, <<12293, 12293>>, <<12330, 12333>>, <<12337, 12341>>, <<12347, 12347>>, <<12441, 12446>>,
       <<12540, 12542>>, <<40981, 40981>>, <<42232, 42237>>, <<42508, 42508>>, <<42607, 42610>>, <<42612, 42621>>,
       <<42623, 42623>>, <<42652, 42655>>, <<42736, 42737>>, <<42752, 42785>>, <<42864, 42864>>, <<42888, 42890>>,
       <<42993, 42996>>, <<43000, 43001>>, <<43010, 43010>>, <<43014, 43014>>, <<43019, 43019>>, <<43045, 43046>>,
       <<43052, 43052>>, <<43204, 43205>>, <<43232, 43249>>, <<43263, 43263>>, <<43302, 43309>>, <<43335, 43345>>,
       <<43392, 43394>>, <<43443, 43443>>, <<43446, 43449>>, <<43452, 43453>>, <<43471, 43471>>, <<43493, 43494>>,
       <<43561, 43566>>, <<43569, 43570>>, <<43573, 43574>>, <<43587, 43587>>, <<43596, 43596>>, <<43632, 43632>>,
       <<43644, 43644>>, <<43696, 43696>>, <<43698, 43700>>, <<43703, 43704>>, <<43710, 43711>>, <<43713, 43713>>,
       <<43741, 43741>>, <<43756, 43757>>, <<43763, 43764>>, <<43766, 43766>>, <<43867, 43871>>, <<43881, 43883>>,
       <<44005, 44005>>, <<44008, 44008>>, <<44013, 44013>>, <<64286, 64286>>, <<64434, 64450>>, <<65024, 65039>>,
       <<65043, 65043>>, <<65056, 65071>>, <<65106, 65106>>, <<65109, 65109>>, <<65279, 65279>>, <<65287, 65287>>,
       <<65294, 65294>>, <<65306, 65306>>, <<65342, 65342>>, <<65344, 65344>>, <<65392, 65392>>, <<65438, 65439>>,
       <<65507, 65507>>, <<65529, 65531>>, <<66045, 66045>>, <<66272, 66272>>, <<66422, 66426>>, <<67456, 67461>>,
       <<67463, 67504>>, <<67506, 67514>>, <<68097, 68099>>, <<68101, 68102>>, <<68108, 68111>>, <<68152, 68154>>,
       <<68159, 68159>>, <<68325, 68326>>, <<68900, 68903>>, <<68942, 68942>>, <<68969, 68973>>, <<68975, 68975>>,
       <<69291, 69292>>, <<69317, 69317>>, <<69370, 69375>>, <<69446, 69456>>, <<69506, 69509>>, <<69633, 69633>>,
       <<69688, 69702>>, <<69744, 69744>>, <<69747, 69748>>, <<69759, 69761>>, <<69811, 69814>>, <<69817, 69818>>,
       <<69821, 69821>>, <<69826, 69826>>, <<69837, 69837>>, <<69888, 69890>>, <<69927, 69931>>, <<69933, 69940>>,
       <<70003, 70003>>, <<70016, 70017>>, <<70070, 70078>>, <<70089, 70092>>, <<70095, 70095>>, <<70191, 70193>>,
       <<70196, 70196>>, <<70198, 70199>>, <<70206, 70206>>, <<70209, 70209>>, <<70367, 70367>>, <<70371, 70378>>,
       <<70400, 70401>>, <<70459, 70460>>, <<70464, 70464>>, <<70502, 70508>>, <<70512, 70516>>, <<70587, 70592>>,
       <<70606, 70606>>, <<70608, 70608>>, <<70610, 70610>>, <<70625, 70626>>, <<70712, 70719>>, <<70722, 70724>>,
       <<70726, 70726>>, <<70750, 70750>>, <<70835, 70840>>, <<70842, 70842>>, <<70847, 70848>>, <<70850, 70851>>,
       <<71090, 71093>>, <<71100, 71101>>, <<71103, 71104>>, <<71132, 71133>>, <<71219, 71226>>, <<71229, 71229>>,
       <<71231, 71232>>, <<71339, 71339>>, <<71341, 71341>>, <<71344, 71349>>, <<71351, 71351>>, <<71453, 71453>>,
       <<71455, 71455>>, <<71458, 71461>>, <<71463, 71467>>, <<71727, 71735>>, <<71737, 71738>>, <<71995, 71996>>,
       <<71998, 71998>>, <<72003, 72003>>, <<72148, 72151>>, <<72154, 72155>>, <<72160, 72160>>, <<72193, 72202>>,
       <<72243, 72248>>, <<72251, 72254>>, <<72263, 72263>>, <<72273, 72278>>, <<72281, 72283>>, <<72330, 72342>>,
       <<72344, 72345>>, <<72544, 72544>>, <<72546, 72548>>, <<72550, 72550>>, <<72752, 72758>>, <<72760, 72765>>,
       <<72767, 72767>>, <<72850, 72871>>, <<72874, 72880>>, <<72882, 72883>>, <<72885, 72886>>, <<73009, 73014>>,
       <<73018, 73018>>, <<73020, 73021>>, <<73023, 73029>>, <<73031, 73031>>, <<73104, 73105>>, <<73109, 73109>>,
       <<73111, 73111>>, <<73177, 73177>>, <<73459, 73460>>, <<73472, 73473>>, <<73526, 73530>>, <<73536, 73536>>,
       <<73538, 73538>>, <<73562, 73562>>, <<78896, 78912>>, <<78919, 78933>>, <<90398, 90409>>, <<90413, 90415>>,
       <<92912, 92916>>, <<92976, 92982>>, <<92992, 92995>>, <<93504, 93506>>, <<93547, 93548>>, <<94031, 94031>>,
       <<94095, 94111>>, <<94176, 94177>>, <<94179, 94180>>, <<94194, 94195>>, <<110576, 110579>>, <<110581, 110587>>,
       <<110589, 110590>>, <<113821, 113822>>, <<113824, 113827>>, <<118528, 118573>>, <<118576, 118598>>, <<119143, 119145>>,
       <<119155, 119170>>, <<119173, 119179>>, <<119210, 119213>>, <<119362, 119364>>, <<121344, 121398>>, <<121403, 121452>>,
       <<121461, 121461>>, <<121476, 121476>>, <<121499, 121503>>, <<121505, 121519>>, <<122880, 122886>>, <<122888, 122904>>,
       <<122907, 122913>>, <<122915, 122916>>, <<122918, 122922>>, <<122928, 122989>>, <<123023, 123023>>, <<123184, 123197>>,
       <<123566, 123566>>, <<123628, 123631>>, <<124139, 124143>>, <<124398, 124399>>, <<124643, 124643>>, <<124646, 124646>>,
       <<124654, 124655>>, <<124661, 124661>>, <<124671, 124671>>, <<125136, 125142>>, <<125252, 125259>>, <<127995, 127999>>,
       <<917505, 917505>>, <<917536, 917631>>, <<917760, 917999>> >>

\* The one-character lowercase mappings as <<lo, hi, step, delta>>: every
\* step-th character from lo to hi maps to itself plus delta.
LowercaseTable ==
    <<
       <<256, 302, 2, 1>>, <<306, 310, 2, 1>>, <<313, 327, 2, 1>>, <<330, 374, 2, 1>>,
       <<376, 376, 1, -121>>, <<377, 381, 2, 1>>, <<385, 385, 1, 210>>, <<386, 388, 2, 1>>,
       <<390, 390, 1, 206>>, <<391, 391, 1, 1>>, <<393, 394, 1, 205>>, <<395, 395, 1, 1>>,
       <<398, 398, 1, 79>>, <<399, 399, 1, 202>>, <<400, 400, 1, 203>>, <<401, 401, 1, 1>>,
       <<403, 403, 1, 205>>, <<404, 404, 1, 207>>, <<406, 406, 1, 211>>, <<407, 407, 1, 209>>,
       <<408, 408, 1, 1>>, <<412, 412, 1, 211>>, <<413, 413, 1, 213>>, <<415, 415, 1, 214>>,
       <<416, 420, 2, 1>>, <<422, 422, 1, 218>>, <<423, 423, 1, 1>>, <<425, 425, 1, 218>>,
       <<428, 428, 1, 1>>, <<430, 430, 1, 218>>, <<431, 431, 1, 1>>, <<433, 434, 1, 217>>,
       <<435, 437, 2, 1>>, <<439, 439, 1, 219>>, <<440, 440, 1, 1>>, <<444, 444, 1, 1>>,
       <<452, 452, 1, 2>>, <<453, 453, 1, 1>>, <<455, 455, 1, 2>>, <<456, 456, 1, 1>>,
       <<458, 458, 1, 2>>, <<459, 475, 2, 1>>, <<478, 494, 2, 1>>, <<497, 497, 1, 2>>,
       <<498, 500, 2, 1>>, <<502, 502, 1, -97>>, <<503, 503, 1, -56>>, <<504, 542, 2, 1>>,
       <<544, 544, 1, -130>>, <<546, 562, 2, 1>>, <<570, 570, 1, 10795>>, <<571, 571, 1, 1>>,
       <<573, 573, 1, -163>>, <<574, 574, 1, 10792>>, <<577, 577, 1, 1>>, <<579, 579, 1, -195>>,
       <<580, 580, 1, 69>>, <<581, 581, 1, 71>>, <<582, 590, 2, 1>>, <<880, 882, 2, 1>>,
       <<886, 886, 1, 1>>, <<895, 895, 1, 116>>, <<902, 902, 1, 38>>, <<904, 906, 1, 37>>,
       <<908, 908, 1, 64>>, <<910, 911, 1, 63>>, <<913, 929, 1, 32>>, <<931, 939, 1, 32>>,
       <<975, 975, 1, 8>>, <<984, 1006, 2, 1>>, <<1012, 1012, 1, -60>>, <<1015, 1015, 1, 1>>,
       <<1017, 1017, 1, -7>>, <<1018, 1018, 1, 1>>, <<1021, 1023, 1, -130>>, <<1024, 1039, 1, 80>>,
       <<1040, 1071, 1, 32>>, <<1120, 1152, 2, 1>>, <<1162, 1214, 2, 1>>, <<1216, 1216, 1, 15>>,
       <<1217, 1229, 2, 1>>, <<1232, 1326, 2, 1>>, <<1329, 1366, 1, 48>>, <<4256, 4293, 1, 7264>>,
       <<4295, 4295, 1, 7264>>, <<4301, 4301, 1, 7264>>, <<5024, 5103, 1, 38864>>, <<5104, 5109, 1, 8>>,
       <<7305, 7305, 1, 1>>, <<7312, 7354, 1, -3008>>, <<7357, 7359, 1, -3008>>, <<7680, 7828, 2, 1>>,
       <<7838, 7838, 1, -7615>>, <<7840, 7934, 2, 1>>, <<7944, 7951, 1, -8>>, <<7960, 7965, 1, -8>>,
       <<7976, 7983, 1, -8>>, <<7992, 7999, 1, -8>>, <<8008, 8013, 1, -8>>, <<8025, 8031, 2, -8>>,
       <<8040, 8047, 1, -8>>, <<8072, 8079, 1, -8>>, <<8088, 8095, 1, -8>>, <<8104, 8111, 1, -8>>,
       <<8120, 8121, 1, -8>>, <<8122, 8123, 1, -74>>, <<8124, 8124, 1, -9>>, <<8136, 8139, 1, -86>>,
       <<8140, 8140, 1, -9>>, <<8152, 8153, 1, -8>>, <<8154, 8155, 1, -100>>, <<8168, 8169, 1, -8>>,
       <<8170, 8171, 1, -112>>, <<8172, 8172, 1, -7>>, <<8184, 8185, 1, -128>>, <<8186, 8187, 1, -126>>,
       <<8188, 8188, 1, -9>>, <<8486, 8486, 1, -7517>>, <<8490, 8490, 1, -8383>>, <<8491, 8491, 1, -8262>>,
       <<8498, 8498, 1, 28>>, <<8544, 8559, 1, 16>>, <<8579, 8579, 1, 1>>, <<9398, 9423, 1, 26>>,
       <<11264, 11311, 1, 48>>, <<11360, 11360, 1, 1>>, <<11362, 11362, 1, -10743>>, <<11363, 11363, 1, -3814>>,
       <<11364, 11364, 1, -10727>>, <<11367, 11371, 2, 1>>, <<11373, 11373, 1, -10780>>, <<11374, 11374, 1, -10749>>,
       <<11375, 11375, 1, -10783>>, <<11376, 11376, 1, -10782>>, <<11378, 11378, 1, 1>>, <<11381, 11381, 1, 1>>,
       <<11390, 11391, 1, -10815>>, <<11392, 11490, 2, 1>>, <<11499, 11501, 2, 1>>, <<11506, 11506, 1, 1>>,
       <<42560, 42604, 2, 1>>, <<42624, 42650, 2, 1>>, <<42786, 42798, 2, 1>>, <<42802, 42862, 2, 1>>,
       <<42873, 42875, 2, 1>>, <<42877, 42877, 1, -35332>>, <<42878, 42886, 2, 1>>, <<42891, 42891, 1, 1>>,
       <<42893, 42893, 1, -42280>>, <<42896, 42898, 2, 1>>, <<42902, 42920, 2, 1>>, <<42922, 42922, 1, -42308>>,
       <<42923, 42923, 1, -42319>>, <<42924, 42924, 1, -42315>>, <<42925, 42925, 1, -42305>>, <<42926, 42926, 1, -42308>>,
       <<42928, 42928, 1, -42258>>, <<42929, 42929, 1, -42282>>, <<42930, 42930, 1, -42261>>, <<42931, 42931, 1, 928>>,
       <<42932, 42946, 2, 1>>, <<42948, 42948, 1, -48>>, <<42949, 42949, 1, -42307>>, <<42950, 42950, 1, -35384>>,
       <<42951, 42953, 2, 1>>, <<42955, 42955, 1, -42343>>, <<42956, 42970, 2, 1>>, <<42972, 42972, 1, -42561>>,
       <<42997, 42997, 1, 1>>, <<65313, 65338, 1, 32>>, <<66560, 66599, 1, 40>>, <<66736, 66771, 1, 40>>,
       <<66928, 66938, 1, 39>>, <<66940, 66954, 1, 39>>, <<66956, 66962, 1, 39>>, <<66964, 66965, 1, 39>>,
       <<68736, 68786, 1, 64>>, <<68944, 68965, 1, 32>>, <<71840, 71871, 1, 32>>, <<93760, 93791, 1, 32>>,
       <<93856, 93880, 1, 27>>, <<125184, 125217, 1, 34>> >>

-----------------------------------------------------------------------------
(* Case conversion and character classes (Rust char / str methods)         *)

\* char::is_alphabetic
IsAlphabetic(c) ==
    IF c < 128
    THEN (c >= 65 /\ c <= 90) \/ (c >= 97 /\ c <= 122)
    ELSE IF c < 256
    THEN c \in {170, 181, 186} \/ (c >= 192 /\ c # 215 /\ c # 247)
    ELSE InRanges(c, AlphabeticRanges)

\* char::is_numeric
IsNumeric(c) ==
    IF c < 128
    THEN c >= 48 /\ c <= 57
    ELSE IF c < 256
    THEN c \in {178, 179, 185, 188, 189, 190}
    ELSE InRanges(c, NumericRanges)

\* char::is_alphanumeric (Alphabetic or Numeric)
IsAlphanumeric(c) == IsAlphabetic(c) \/ IsNumeric(c)

\* core::unicode::Cased
Cased(c) ==
    IF c < 128
    THEN (c >= 65 /\ c <= 90) \/ (c >= 97 /\ c <= 122)
    ELSE InRanges(c, CasedRanges)

\* core::unicode::Case_Ignorable
Case_Ignorable(c) ==
    IF c < 128
    THEN c \in {39, 46, 58, 94, 96}
    ELSE InRanges(c, CaseIgnorableRanges)

\* char::to_lowercase: the characters c lowers to. U+0130 is the one
\* character that lowers to two (i and a combining dot above).
ToLowerChar(c) ==
    IF c < 128
    THEN (IF c >= 65 /\ c <= 90 THEN <<c + 32>> ELSE <<c>>)
    ELSE IF c < 256
    THEN (IF c >= 192 /\ c <= 222 /\ c # 215 THEN <<c + 32>> ELSE <<c>>)
    ELSE IF c = 304 THEN <<105, 775>>
    ELSE LET hits == {i \in DOMAIN LowercaseTable :
                         /\ LowercaseTable[i][1] <= c
                         /\ c <= LowercaseTable[i][2]
                         /\ (c - LowercaseTable[i][1]) % LowercaseTable[i][3] = 0}
         IN  IF hits = {} THEN <<c>>
             ELSE <<c + LowercaseTable[CHOOSE i \in hits : TRUE][4]>>

\* case_ignorable_then_cased: the first character of chars that is not
\* case-ignorable exists and is cased.
case_ignorable_then_cased(chars) ==
    LET rest == {i \in 1..Len(chars) : ~Case_Ignorable(chars[i])}
    IN  /\ rest # {}
        /\ Cased(chars[CHOOSE i \in rest : \A j \in rest : i <= j])

\* map_uppercase_sigma: a capital sigma (U+03A3) at index i of from lowers
\* to the final sigma (U+03C2) at the end of a word, else to U+03C3.
map_uppercase_sigma(from, i) ==
    LET before == [j \in 1..(i - 1) |-> from[i - j]]
        after  == SubSeq(from, i + 1, Len(from))
    IN  IF case_ignorable_then_cased(before) /\ ~case_ignorable_then_cased(after)
        THEN 962 ELSE 963

\* The loop of str::to_lowercase from index i on.
RECURSIVE ToLowerFrom(_, _)
ToLowerFrom(s, i) ==
    IF i > Len(s) THEN <<>>
    ELSE (IF s[i] = 931 THEN <<map_uppercase_sigma(s, i)>> ELSE ToLowerChar(s[i]))
         \o ToLowerFrom(s, i + 1)

\* str::to_lowercase
ToLowerStr(s) == ToLowerFrom(s, 1)

-----------------------------------------------------------------------------
(* Format detection: crates/core/src/types.rs                              *)

ZipSig == <<80, 75, 3, 4>>                          \* 50 4B 03 04
CfbSig == <<208, 207, 17, 224, 161, 177, 26, 225>>  \* D0 CF 11 E0 A1 B1 1A E1

StrPptx == <<112, 112, 116, 120>>   \* "pptx"
StrPpt  == <<112, 112, 116>>        \* "ppt"

\* A variant of from_extension that compares the extension as written,
\* without lowering its case.
from_extension_exact(ext) ==
    IF ext = StrPptx THEN "Pptx"
    ELSE IF ext = StrPpt THEN "Ppt"
    ELSE "None"

\* PresentationFormat::from_extension
from_extension(ext) ==
    LET l == ToLowerStr(ext)
    IN  IF l = StrPptx THEN "Pptx"
        ELSE IF l = StrPpt THEN "Ppt"
        ELSE "None"

\* PresentationFormat::from_magic
from_magic(bytes) ==
    IF Len(bytes) < 4 THEN "None"
    ELSE IF StartsWith(bytes, ZipSig) THEN "Pptx"
    ELSE IF Len(bytes) >= 8 /\ StartsWith(bytes, CfbSig) THEN "Ppt"
    ELSE "None"

\* filename.rsplit('.').next(): the text after the last '.', the whole name
\* when it has no '.'.
RsplitDotFirst(name) ==
    IF LastDot(name) = 0 THEN Some(name)
    ELSE Some(SubSeq(name, LastDot(name) + 1, Len(name)))

\* std::path::Path::extension of a bare file name: None for "..", for a name
\* without '.', and for a name whose only '.' is its first character.
PathExtension(name) ==
    IF name = <<46, 46>> THEN None
    ELSE IF LastDot(name) <= 1 THEN None
    ELSE Some(SubSeq(name, LastDot(name) + 1, Len(name)))

\* A variant of the detection chain that asks the extension first and the
\* magic bytes second.
DetectWithExtFirst(magic, ext) ==
    IF ext # None /\ from_extension(ext[1]) # "None" THEN from_extension(ext[1])
    ELSE IF magic # "None" THEN magic
    ELSE "CouldNotDetect"

\* magic.or_else(|| ext.and_then(from_extension)).ok_or("Could not detect")
DetectWith(magic, ext) ==
    IF magic # "None" THEN magic
    ELSE IF ext = None THEN "CouldNotDetect"
    ELSE IF from_extension(ext[1]) # "None" THEN from_extension(ext[1])
    ELSE "CouldNotDetect"

\* Whether the or_else closure reached from_extension.
ExtConsulted(magic, ext) == magic = "None" /\ ext # None

(* Inputs of the detection model. *)
MaxPad == 5

PadBytes == {0, 255}

Buffers ==
    { Take(sig, k) \o Repeat(b, n) :
        sig \in {ZipSig, CfbSig}, k \in 0..8, b \in PadBytes, n \in 0..MaxPad }

Stems == { <<>>, <<97>>, <<97, 46, 98>> }            \* "", "a", "a.b"

Exts ==
    { StrPptx, <<80, 80, 84, 88>>, <<80, 112, 84, 120>>,     \* pptx PPTX PpTx
      StrPpt, <<80, 80, 84>>, <<112, 80, 116>>,              \* ppt PPT pPt
      <<112, 112, 116, 109>>, <<116, 120, 116>>, <<>> }      \* pptm txt ""

FileNames ==
    { n \in { stem \o dot \o ext : stem \in Stems, dot \in {<<>>, <<46>>},
                                    ext \in Exts } : Len(n) > 0 }

DetectIdle ==
    /\ dData = <<>>
    /\ dName = <<>>
    /\ dPc = "idle"
    /\ dMagic = "unset"
    /\ dExtAsked = FALSE
    /\ dResult = "unset"

TextIdle ==
    /\ tBytes = <<>>
    /\ tCode = [hi |-> 0, lo |-> 0]
    /\ tPc = "idle"
    /\ tText = <<>>
    /\ tKept = "unset"

DefaultValidation ==
    [stream_size |-> 0, has_document |-> FALSE, has_slides |-> FALSE,
     has_text_headers |-> FALSE, has_text_content |-> FALSE,
     text_record_count |-> 0, unsupported_text_types |-> {},
     malformed_records |-> 0]

PptIdleOn(build) ==
    /\ pBuild = build
    /\ pFile = "ok"
    /\ pData = <<>>
    /\ pPc = "idle"
    /\ pStack = <<>>
    /\ pVal = DefaultValidation
    /\ pResult = "none"
    /\ pCurType = "Body"
    /\ pPersist = 0
    /\ pEntries = <<>>
    /\ pSlides = <<>>
    /\ pVTrace = <<>>
    /\ pETrace = <<>>
    /\ pSeen = <<>>

PptIdle == PptIdleOn("usize64")

UnicodeIdle ==
    /\ uBytes = <<>>
    /\ uPc = "idle"
    /\ uText = <<>>
    /\ uKept = "unset"

SlideIdle ==
    /\ sEntries = <<>>
    /\ sPc = "idle"
    /\ sByHint = <<>>
    /\ sGroups = <<>>
    /\ sSlides = <<>>

ManifestIdle ==
    /\ xRels = <<>>
    /\ xPc = "idle"
    /\ xOrder = <<>>
    /\ xSlides = <<>>

ShapesIdle ==
    /\ hShapes = <<>>
    /\ hPc = "idle"
    /\ hLines = <<>>

NormIdle ==
    /\ nText = <<>>
    /\ nPreserve = TRUE
    /\ nPc = "idle"
    /\ nStage = <<>>
    /\ nOut = <<>>
    /\ nOut2 = <<>>

SimIdle ==
    /\ mA = <<>>
    /\ mB = <<>>
    /\ mPc = "idle"
    /\ mSim = <<>>

TitleIdle ==
    /\ wSlides = <<>>
    /\ wFile = <<>>
    /\ wPreserve = TRUE
    /\ wPc = "idle"
    /\ wTitle = <<>>
    /\ wIdx = <<>>
    /\ wLines = <<>>

FmtIdle ==
    /\ fLines = <<>>
    /\ fN = 0
    /\ fChecks = FALSE
    /\ fTitle = <<>>
    /\ fPc = "idle"
    /\ fText = <<>>
    /\ fCount = 0

XmlIdle ==
    /\ eXml = <<>>
    /\ ePc = "idle"
    /\ ePos = 0
    /\ eState = <<>>
    /\ eShapes = <<>>

LastIdle ==
    /\ SimIdle
    /\ TitleIdle
    /\ FmtIdle
    /\ XmlIdle

LaterIdle ==
    /\ UnicodeIdle
    /\ SlideIdle
    /\ ManifestIdle
    /\ ShapesIdle
    /\ NormIdle

DetectInit ==
    /\ TextIdle
    /\ PptIdle
    /\ LaterIdle
    /\ LastIdle
    /\ dData \in Buffers
    /\ dName \in FileNames
    /\ dPc = "start"
    /\ dMagic = "unset"
    /\ dExtAsked = FALSE
    /\ dResult = "unset"

\* A call of from_magic on the whole buffer.
FromMagicCall ==
    /\ dPc = "start"
    /\ dPc' = "from_magic"
    /\ dMagic' = from_magic(dData)
    /\ dResult' = from_magic(dData)
    /\ UNCHANGED <<dData, dName, dExtAsked>>
    /\ UNCHANGED <<textVars, pptVars, laterVars, lastVars>>

\* worker-wasm extract_presentation_impl, up to the detected format.
ExtractPresentationImpl ==
    /\ dPc = "start"
    /\ dPc' = "wasm"
    /\ IF Len(dData) < 8
       THEN /\ dResult' = "FileTooSmall"
            /\ UNCHANGED <<dMagic, dExtAsked>>
       ELSE LET magic == from_magic(Take(dData, 8))
                ext == RsplitDotFirst(dName)
            IN  /\ dMagic' = magic
                /\ dExtAsked' = ExtConsulted(magic, ext)
                /\ dResult' = DetectWith(magic, ext)
    /\ UNCHANGED <<dData, dName>>
    /\ UNCHANGED <<textVars, pptVars, laterVars, lastVars>>

\* cli process_file, up to the detected format: read_exact of 8 bytes fails
\* on a shorter file.
ProcessFile ==
    /\ dPc = "start"
    /\ dPc' = "cli"
    /\ IF Len(dData) < 8
       THEN /\ dResult' = "ReadHeaderFailed"
            /\ UNCHANGED <<dMagic, dExtAsked>>
       ELSE LET magic == from_magic(Take(dData, 8))
                ext == PathExtension(dName)
            IN  /\ dMagic' = magic
                /\ dExtAsked' = ExtConsulted(magic, ext)
                /\ dResult' = DetectWith(magic, ext)
    /\ UNCHANGED <<dData, dName>>
    /\ UNCHANGED <<textVars, pptVars, laterVars, lastVars>>

\* desktop extract_presentation, up to the detected format.
DesktopExtractPresentation ==
    /\ dPc = "start"
    /\ dPc' = "desktop"
    /\ IF Len(dData) < 8
       THEN /\ dResult' = "ReadHeaderFailed"
            /\ UNCHANGED <<dMagic, dExtAsked>>
       ELSE LET magic == from_magic(Take(dData, 8))
                ext == PathExtension(dName)
            IN  /\ dMagic' = magic
                /\ dExtAsked' = ExtConsulted(magic, ext)
                /\ dResult' = DetectWith(magic, ext)
    /\ UNCHANGED <<dData, dName>>
    /\ UNCHANGED <<textVars, pptVars, laterVars, lastVars>>

DetectNext ==
    \/ FromMagicCall
    \/ ExtractPresentationImpl
    \/ ProcessFile
    \/ DesktopExtractPresentation

SpecDetect == DetectInit /\ [][DetectNext]_vars

-----------------------------------------------------------------------------
(* usize arithmetic.  A u32 read from the stream is kept as two 16-bit     *)
(* limbs [hi, lo] (value hi * 65536 + lo), since the declared length of a  *)
(* record ranges over 0..2^32-1.  The build decides the width of usize and *)
(* what an overflowing + does:                                             *)
(*   "usize64"          native targets: pos + 8 + rec_len cannot overflow  *)
(*   "usize32_wrap"     wasm32 without overflow checks: + wraps mod 2^32   *)
(*   "usize32_checked"  wasm32 with overflow checks: + panics              *)
(* Huge stands for every usize value of at least 2^31 - 1, which is larger *)
(* than every offset of a stream of the model.                             *)

Builds == {"usize64", "usize32_wrap", "usize32_checked"}

Huge == 2147483646 + 1

ToU32(n) == [hi |-> n \div 65536, lo |-> n % 65536]

U32IsZero(u) == u.hi = 0 /\ u.lo = 0

\* u >= n, for a small n
U32AtLeast(u, n) == u.hi > 0 \/ u.lo >= n

\* u > n, for a small n
U32Greater(u, n) == u.hi > 0 \/ u.lo > n

\* u - 2^32, for u >= 2^31 (a negative number)
U32MinusWord(u) == ((u.hi - 65535) * 65536) + (u.lo - 65536)

\* a + u in unbounded arithmetic, Huge when it is 2^31 - 1 or more
\* (a is an offset of the stream, far below Huge).
ExactSum(a, u) ==
    IF u.hi >= 32768 THEN Huge
    ELSE LET v == u.hi * 65536 + u.lo
         IN  IF v >= Huge - a THEN Huge ELSE a + v

\* Whether a + u is 2^32 or more: the sum does not fit a 32-bit usize.
Overflows32(a, u) == u.hi >= 32768 /\ a + U32MinusWord(u) >= 0

\* `a + (u as usize)`: [panic, val]
AddUsize(build, a, u) ==
    IF build = "usize64" \/ ~Overflows32(a, u)
    THEN [panic |-> FALSE, val |-> ExactSum(a, u)]
    ELSE IF build = "usize32_wrap"
    THEN [panic |-> FALSE, val |-> a + U32MinusWord(u)]
    ELSE [panic |-> TRUE, val |-> 0]

-----------------------------------------------------------------------------
(* Characters and strings (Rust char / str methods)                        *)

\* char::is_whitespace (the Unicode White_Space property)
IsWhitespace(c) ==
    \/ (c >= 9 /\ c <= 13)
    \/ c \in {32, 133, 160, 5760, 8232, 8233, 8239, 8287, 12288}
    \/ (c >= 8192 /\ c <= 8202)

\* The length in bytes of the UTF-8 encoding of a character.
Utf8Len(c) ==
    IF c < 128 THEN 1 ELSE IF c < 2048 THEN 2 ELSE IF c < 65536 THEN 3 ELSE 4

\* str::len: the length of a string in bytes of its UTF-8 encoding.
RECURSIVE StrLen(_)
StrLen(s) == IF s = <<>> THEN 0 ELSE Utf8Len(Head(s)) + StrLen(Tail(s))

\* str::trim
TrimStr(s) ==
    LET keep == {i \in 1..Len(s) : ~IsWhitespace(s[i])}
    IN  IF keep = {} THEN <<>>
        ELSE SubSeq(s, CHOOSE i \in keep : \A j \in keep : i <= j,
                       CHOOSE i \in keep : \A j \in keep : j <= i)

\* str::contains(&str)
Contains(s, p) ==
    \E i \in 0..(Len(s) - Len(p)) : SubSeq(s, i + 1, i + Len(p)) = p

-----------------------------------------------------------------------------
(* Legacy parser: text types, decoding and content filtering               *)
(* crates/ppt/src/parser.rs                                                *)

\* TextType::from_u32, on a u32 held as limbs
from_u32(value) ==
    IF value.hi # 0 THEN "Other"
    ELSE CASE value.lo = 0 -> "Title"
           [] value.lo = 1 -> "Body"
           [] value.lo = 2 -> "Notes"
           [] value.lo = 3 -> "NotUsed"
           [] value.lo = 4 -> "Other"
           [] value.lo = 5 -> "CenterBody"
           [] value.lo = 6 -> "CenterTitle"
           [] value.lo = 7 -> "HalfBody"
           [] value.lo = 8 -> "QuarterBody"
           [] OTHER -> "Other"

\* A variant of is_slide_content that excludes Notes alone.
is_slide_content_notes_only(text_type) == text_type # "Notes"

\* TextType::is_slide_content
is_slide_content(text_type) == text_type \notin {"Notes", "NotUsed"}

\* A variant of the byte-to-char match that reads every byte as Latin-1.
Cp1252CharLatin1(b) == b

\* The byte-to-char match of extract_ansi_text.
Cp1252Char(b) ==
    CASE b <= 127 -> b
      [] b = 128 -> 8364    \* 0x80 -> U+20AC
      [] b = 130 -> 8218    \* 0x82 -> U+201A
      [] b = 131 -> 402     \* 0x83 -> U+0192
      [] b = 132 -> 8222    \* 0x84 -> U+201E
      [] b = 133 -> 8230    \* 0x85 -> U+2026
      [] b = 134 -> 8224    \* 0x86 -> U+2020
      [] b = 135 -> 8225    \* 0x87 -> U+2021
      [] b = 136 -> 710     \* 0x88 -> U+02C6
      [] b = 137 -> 8240    \* 0x89 -> U+2030
      [] b = 138 -> 352     \* 0x8A -> U+0160
      [] b = 139 -> 8249    \* 0x8B -> U+2039
      [] b = 140 -> 338     \* 0x8C -> U+0152
      [] b = 142 -> 381     \* 0x8E -> U+017D
      [] b = 145 -> 8216    \* 0x91 -> U+2018
      [] b = 146 -> 8217    \* 0x92 -> U+2019
      [] b = 147 -> 8220    \* 0x93 -> U+201C
      [] b = 148 -> 8221    \* 0x94 -> U+201D
      [] b = 149 -> 8226    \* 0x95 -> U+2022
      [] b = 150 -> 8211    \* 0x96 -> U+2013
      [] b = 151 -> 8212    \* 0x97 -> U+2014
      [] b = 152 -> 732     \* 0x98 -> U+02DC
      [] b = 153 -> 8482    \* 0x99 -> U+2122
      [] b = 154 -> 353     \* 0x9A -> U+0161
      [] b = 155 -> 8250    \* 0x9B -> U+203A
      [] b = 156 -> 339     \* 0x9C -> U+0153
      [] b = 158 -> 382     \* 0x9E -> U+017E
      [] b = 159 -> 376     \* 0x9F -> U+0178
      [] b >= 160 -> b
      [] OTHER -> 63        \* '?'

\* slice.iter().position(|&b| b == 0).unwrap_or(slice.len()), as a count
NullPosition(slice) ==
    LET nulls == {i \in 1..Len(slice) : slice[i] = 0}
    IN  IF nulls = {} THEN Len(slice)
        ELSE (CHOOSE i \in nulls : \A j \in nulls : i <= j) - 1

\* PptParser::extract_ansi_text(data, start, len): [panic, text], text an
\* Option<String>.  start is a 0-based offset, len a usize held as limbs.
extract_ansi_text(build, data, start, len) ==
    LET sum == AddUsize(build, start, len)
    IN  IF U32IsZero(len) THEN [panic |-> FALSE, text |-> None]
        ELSE IF sum.panic THEN [panic |-> TRUE, text |-> None]
        ELSE IF sum.val > Len(data) THEN [panic |-> FALSE, text |-> None]
        ELSE IF sum.val < start THEN [panic |-> TRUE, text |-> None]
        ELSE LET slice == SubSeq(data, start + 1, sum.val)
                 cut == SubSeq(slice, 1, NullPosition(slice))
                 text == [i \in 1..Len(cut) |-> Cp1252Char(cut[i])]
             IN  IF TrimStr(text) = <<>>
                 THEN [panic |-> FALSE, text |-> None]
                 ELSE [panic |-> FALSE, text |-> Some(text)]

\* char::decode_utf16(units).take_while(|r| Ok and not '\0').filter_map(ok):
\* the characters decoded before the first null, the first unpaired
\* surrogate, or the end.
RECURSIVE DecodeUtf16TakeWhile(_)
DecodeUtf16TakeWhile(units) ==
    IF units = <<>> THEN <<>>
    ELSE LET u == Head(units)
         IN  IF u = 0 THEN <<>>
             ELSE IF u < 55296 \/ u > 57343
             THEN <<u>> \o DecodeUtf16TakeWhile(Tail(units))
             ELSE IF u >= 56320 THEN <<>>
             ELSE IF Len(units) < 2 THEN <<>>
             ELSE LET u2 == units[2]
                  IN  IF u2 < 56320 \/ u2 > 57343 THEN <<>>
                      ELSE <<65536 + (u - 55296) * 1024 + (u2 - 56320)>>
                           \o DecodeUtf16TakeWhile(Tail(Tail(units)))

\* PptParser::extract_unicode_text(data, start, len): [panic, text]
extract_unicode_text(build, data, start, len) ==
    LET sum == AddUsize(build, start, len)
    IN  IF U32IsZero(len) THEN [panic |-> FALSE, text |-> None]
        ELSE IF sum.panic THEN [panic |-> TRUE, text |-> None]
        ELSE IF sum.val > Len(data) \/ len.lo % 2 # 0
        THEN [panic |-> FALSE, text |-> None]
        ELSE IF sum.val < start THEN [panic |-> TRUE, text |-> None]
        ELSE LET slice == SubSeq(data, start + 1, sum.val)
                 u16_chars == [i \in 1..(Len(slice) \div 2) |->
                                  slice[2 * i - 1] + 256 * slice[2 * i]]
                 text == DecodeUtf16TakeWhile(u16_chars)
             IN  IF text = <<>>
                 THEN [panic |-> FALSE, text |-> None]
                 ELSE [panic |-> FALSE, text |-> Some(text)]

\* The template_patterns array of is_valid_slide_text.
template_patterns ==
    { <<67, 108, 105, 99, 107, 32, 116, 111, 32, 101, 100, 105, 116>>,  \* "Click to edit"
      <<99, 108, 105, 99, 107, 32, 116, 111, 32, 101, 100, 105, 116>>,  \* "click to edit"
      <<69, 100, 105, 116, 32, 77, 97, 115, 116, 101, 114>>,            \* "Edit Master"
      <<101, 100, 105, 116, 32, 109, 97, 115, 116, 101, 114>>,          \* "edit master"
      <<77, 97, 115, 116, 101, 114, 32, 116, 105, 116, 108, 101>>,      \* "Master title"
      <<109, 97, 115, 116, 101, 114, 32, 116, 105, 116, 108, 101>>,     \* "master title"
      <<77, 97, 115, 116, 101, 114, 32, 116, 101, 120, 116>>,           \* "Master text"
      <<109, 97, 115, 116, 101, 114, 32, 116, 101, 120, 116>>,          \* "master text"
      <<83, 101, 99, 111, 110, 100, 32, 108, 101, 118, 101, 108>>,      \* "Second level"
      <<84, 104, 105, 114, 100, 32, 108, 101, 118, 101, 108>>,          \* "Third level"
      <<70, 111, 117, 114, 116, 104, 32, 108, 101, 118, 101, 108>>,     \* "Fourth level"
      <<70, 105, 102, 116, 104, 32, 108, 101, 118, 101, 108>> }         \* "Fifth level"

\* PptParser::is_valid_slide_text
is_valid_slide_text(text, text_type) ==
    LET trimmed == TrimStr(text)
    IN  IF trimmed = <<>> THEN FALSE
        ELSE IF ~is_slide_content(text_type) THEN FALSE
        ELSE IF \E pattern \in template_patterns : Contains(trimmed, pattern)
        THEN FALSE
        ELSE IF StrLen(trimmed) = 1 /\ ~IsAlphanumeric(trimmed[1]) THEN FALSE
        ELSE TRUE


(* Inputs of the text model: every single byte alone and between two       *)
(* letters, every short run over RunBytes, and the template phrases in     *)
(* three capitalisations inside a little context.                          *)
MaxRunLen == 3
MaxTypeCode == 9

RunBytes == {0, 32, 42, 65, 129, 149, 160}   \* NUL ' ' '*' 'A' 0x81 0x95 0xA0

ToUpperChar(c) == IF c >= 97 /\ c <= 122 THEN c - 32 ELSE c

ToUpperStr(s) == [i \in 1..Len(s) |-> ToUpperChar(s[i])]

\* The eight placeholder phrases, as PowerPoint writes them.
Phrases ==
    { <<67, 108, 105, 99, 107, 32, 116, 111, 32, 101, 100, 105, 116>>,  \* "Click to edit"
      <<69, 100, 105, 116, 32, 77, 97, 115, 116, 101, 114>>,            \* "Edit Master"
      <<77, 97, 115, 116, 101, 114, 32, 116, 105, 116, 108, 101>>,      \* "Master title"
      <<77, 97, 115, 116, 101, 114, 32, 116, 101, 120, 116>>,           \* "Master text"
      <<83, 101, 99, 111, 110, 100, 32, 108, 101, 118, 101, 108>>,      \* "Second level"
      <<84, 104, 105, 114, 100, 32, 108, 101, 118, 101, 108>>,          \* "Third level"
      <<70, 111, 117, 114, 116, 104, 32, 108, 101, 118, 101, 108>>,     \* "Fourth level"
      <<70, 105, 102, 116, 104, 32, 108, 101, 118, 101, 108>> }         \* "Fifth level"

PhraseInputs ==
    { pre \o v \o post :
        pre \in { <<>>, <<32>>, <<120, 32>> },                  \* "", " ", "x "
        v \in UNION { {ph, ToLowerStr(ph), ToUpperStr(ph)} : ph \in Phrases },
        post \in { <<>>, <<32, 115, 116, 121, 108, 101>> } }    \* "", " style"

TextInputs ==
    { <<b>> : b \in 0..255 }
    \cup { <<65, b, 66>> : b \in 0..255 }
    \cup UNION { [1..n -> RunBytes] : n \in 0..MaxRunLen }
    \cup PhraseInputs

TypeCodes == { ToU32(c) : c \in 0..MaxTypeCode } \cup { ToU32(65538) }

TextInit ==
    /\ DetectIdle
    /\ PptIdle
    /\ LaterIdle
    /\ LastIdle
    /\ tBytes \in TextInputs
    /\ tCode \in TypeCodes
    /\ tPc = "start"
    /\ tText = None
    /\ tKept = "unset"

\* The RT_TEXT_BYTES_ATOM arm of parse_records_recursive, first half: the
\* body is decoded by extract_ansi_text.
ExtractAnsiText ==
    /\ tPc = "start"
    /\ tPc' = "decoded"
    /\ tText' = extract_ansi_text("usize64", tBytes, 0, ToU32(Len(tBytes))).text
    /\ UNCHANGED <<tBytes, tCode, tKept>>
    /\ UNCHANGED <<detectVars, pptVars, laterVars, lastVars>>

\* Second half: a decoded text is kept if is_valid_slide_text accepts it
\* under the current text type.
IsValidSlideText ==
    /\ tPc = "decoded"
    /\ tText # None
    /\ tPc' = "filtered"
    /\ tKept' = is_valid_slide_text(tText[1], from_u32(tCode))
    /\ UNCHANGED <<tBytes, tCode, tText>>
    /\ UNCHANGED <<detectVars, pptVars, laterVars, lastVars>>

TextNext ==
    \/ ExtractAnsiText
    \/ IsValidSlideText

SpecText == TextInit /\ [][TextNext]_vars

-----------------------------------------------------------------------------
(* Unicode text runs: the RT_TEXT_CHARS_ATOM arm on one record body.      *)
(* Bodies are up to MaxUnits little-endian code units drawn from plain     *)
(* letters, the null unit and both kinds of surrogate, with or without a   *)
(* stray last byte.                                                        *)
MaxUnits == 3

\* NUL, 'H', 'i', a high surrogate, a low surrogate
RunUnits == {0, 72, 105, 55296, 56320}

RECURSIVE UnitsLE(_)
UnitsLE(units) ==
    IF units = <<>> THEN <<>>
    ELSE <<Head(units) % 256, Head(units) \div 256>> \o UnitsLE(Tail(units))

UnicodeInputs ==
    { UnitsLE(units) \o odd :
        units \in UNION { [1..n -> RunUnits] : n \in 0..MaxUnits },
        odd \in { <<>>, <<72>> } }

\* The text type in force when no TextHeaderAtom came before the run.
DefaultTextType == "Body"

UnicodeInit ==
    /\ DetectIdle
    /\ TextIdle
    /\ PptIdle
    /\ LastIdle
    /\ SlideIdle
    /\ ManifestIdle
    /\ ShapesIdle
    /\ NormIdle
    /\ uBytes \in UnicodeInputs
    /\ uPc = "start"
    /\ uText = None
    /\ uKept = "unset"

\* The RT_TEXT_CHARS_ATOM arm of parse_records_recursive, first half: the
\* body is decoded by extract_unicode_text.
ExtractUnicodeText ==
    /\ uPc = "start"
    /\ uPc' = "decoded"
    /\ uText' = extract_unicode_text("usize64", uBytes, 0, ToU32(Len(uBytes))).text
    /\ UNCHANGED <<uBytes, uKept>>
    /\ UNCHANGED <<detectVars, textVars, pptVars, slideVars, pptxVars, normVars,
                   lastVars>>

\* Second half: a decoded text is kept if is_valid_slide_text accepts it.
IsValidUnicodeText ==
    /\ uPc = "decoded"
    /\ uText # None
    /\ uPc' = "filtered"
    /\ uKept' = is_valid_slide_text(uText[1], DefaultTextType)
    /\ UNCHANGED <<uBytes, uText>>
    /\ UNCHANGED <<detectVars, textVars, pptVars, slideVars, pptxVars, normVars,
                   lastVars>>

UnicodeNext ==
    \/ ExtractUnicodeText
    \/ IsValidUnicodeText

SpecUnicode == UnicodeInit /\ [][UnicodeNext]_vars

-----------------------------------------------------------------------------
(* Legacy parser: the record traversals of crates/ppt/src/parser.rs        *)

MIN_STREAM_SIZE == 512
MAX_SUPPORTED_TEXT_TYPE == 8

RT_DOCUMENT == 5000             \* 0x1388
RT_SLIDE == 1000                \* 0x03E8
RT_SLIDE_PERSIST_ATOM == 1008   \* 0x03F0
RT_TEXT_HEADER_ATOM == 3999     \* 0x0F9F
RT_TEXT_CHARS_ATOM == 4000      \* 0x0FA0
RT_TEXT_BYTES_ATOM == 4008      \* 0x0FA8
RT_CSTRING == 4026              \* 0x0FBA

\* read_u16_le(data, offset), offset 0-based
read_u16_le(data, offset) == data[offset + 1] + 256 * data[offset + 2]

\* read_u32_le(data, offset), as limbs
read_u32_le(data, offset) ==
    [lo |-> data[offset + 1] + 256 * data[offset + 2],
     hi |-> data[offset + 3] + 256 * data[offset + 4]]

\* The head of the loop body of scan_records_for_validation: the 8-byte
\* header at pos and the check for a malformed record.
ScanHeader(build, data, pos, end) ==
    LET rec_ver_instance == read_u16_le(data, pos)
        rec_type == read_u16_le(data, pos + 2)
        rec_len == read_u32_le(data, pos + 4)
        content_start == pos + 8
        sum == AddUsize(build, content_start, rec_len)
    IN  [pos |-> pos,
         rec_ver |-> rec_ver_instance % 16,
         rec_type |-> rec_type,
         rec_len |-> rec_len,
         content_start |-> content_start,
         content_end |-> sum.val,
         panic |-> sum.panic,
         malformed |-> ~sum.panic /\ (sum.val > end \/ sum.val > Len(data))]

\* The head of the loop body of parse_records_recursive.
ParseHeader(build, data, pos, end) ==
    LET rec_ver_instance == read_u16_le(data, pos)
        rec_type == read_u16_le(data, pos + 2)
        rec_len == read_u32_le(data, pos + 4)
        content_start == pos + 8
        sum == AddUsize(build, content_start, rec_len)
    IN  [pos |-> pos,
         rec_ver |-> rec_ver_instance % 16,
         rec_type |-> rec_type,
         rec_len |-> rec_len,
         content_start |-> content_start,
         content_end |-> sum.val,
         panic |-> sum.panic,
         malformed |-> ~sum.panic /\ (sum.val > end \/ sum.val > Len(data))]

\* `while pos + 8 <= end` of the innermost call and of the calls it returns
\* to: the calls whose loop has ended are dropped.
RECURSIVE Unwind(_)
Unwind(stack) ==
    IF stack = <<>> THEN stack
    ELSE LET top == stack[Len(stack)]
         IN  IF top.pos + 8 <= top.end THEN stack
             ELSE Unwind(SubSeq(stack, 1, Len(stack) - 1))

\* The tail of the loop body of scan_records_for_validation: the descent
\* into a container (`if rec_ver == 0x0F { recurse }`), then
\* `pos = content_end` in the call itself.
ScanAdvance(stack, h) ==
    LET n == Len(stack)
        moved == [stack EXCEPT ![n].pos = h.content_end]
    IN  Unwind(IF h.rec_ver = 15
               THEN Append(moved, [pos |-> h.content_start, end |-> h.content_end])
               ELSE moved)

\* A variant of the tail of the loop body that never descends.
ParseAdvanceFlat(stack, h) ==
    Unwind([stack EXCEPT ![Len(stack)].pos = h.content_end])

\* The tail of the loop body of parse_records_recursive.
ParseAdvance(stack, h) ==
    LET n == Len(stack)
        moved == [stack EXCEPT ![n].pos = h.content_end]
    IN  Unwind(IF h.rec_ver = 15
               THEN Append(moved, [pos |-> h.content_start, end |-> h.content_end])
               ELSE moved)

\* A variant of `break` that ends every active call.
BreakAll(stack) == <<>>

\* `break`: the innermost call returns.
Break(stack) == Unwind(SubSeq(stack, 1, Len(stack) - 1))

\* The `match rec_type` of scan_records_for_validation.
ScanTally(val, h, data) ==
    IF h.rec_type = RT_DOCUMENT THEN [val EXCEPT !.has_document = TRUE]
    ELSE IF h.rec_type = RT_SLIDE THEN [val EXCEPT !.has_slides = TRUE]
    ELSE IF h.rec_type = RT_TEXT_HEADER_ATOM
    THEN IF /\ U32AtLeast(h.rec_len, 4)
            /\ h.content_start + 4 <= Len(data)
            /\ U32Greater(read_u32_le(data, h.content_start),
                          MAX_SUPPORTED_TEXT_TYPE)
         THEN [val EXCEPT !.has_text_headers = TRUE,
                          !.unsupported_text_types =
                              @ \cup {read_u32_le(data, h.content_start)}]
         ELSE [val EXCEPT !.has_text_headers = TRUE]
    ELSE IF h.rec_type \in {RT_TEXT_CHARS_ATOM, RT_TEXT_BYTES_ATOM}
    THEN [val EXCEPT !.has_text_content = TRUE,
                     !.text_record_count = @ + 1]
    ELSE val

\* A variant of the checks that asks for a text run and ignores Text-Headers.
ValidationVerdictRunsOnly(val) ==
    IF ~val.has_document THEN "UnsupportedFormat"
    ELSE IF ~val.has_text_content THEN "UnsupportedFormat"
    ELSE IF val.malformed_records > 10 THEN "CorruptedFile"
    ELSE "Ok"

\* A variant of the checks whose malformed-record limit is off by one.
ValidationVerdictAtTen(val) ==
    IF ~val.has_document THEN "UnsupportedFormat"
    ELSE IF ~val.has_text_content /\ ~val.has_text_headers
    THEN "UnsupportedFormat"
    ELSE IF val.malformed_records >= 10 THEN "CorruptedFile"
    ELSE "Ok"

\* The checks of validate_stream after the scan: "Ok" or the Error kind.
ValidationVerdict(val) ==
    IF ~val.has_document THEN "UnsupportedFormat"
    ELSE IF ~val.has_text_content /\ ~val.has_text_headers
    THEN "UnsupportedFormat"
    ELSE IF val.malformed_records > 10 THEN "CorruptedFile"
    ELSE "Ok"

(* organize_into_slides *)

\* A variant of the grouping loop that never updates last_slide_hint: every
\* entry is compared with the initial 0.
RECURSIVE GroupByHintFromZero(_, _, _, _, _)
GroupByHintFromZero(entries, i, slide_groups, current_slide, last_slide_hint) ==
    IF i > Len(entries)
    THEN IF current_slide # <<>> THEN Append(slide_groups, current_slide)
         ELSE slide_groups
    ELSE LET entry == entries[i]
         IN  IF entry.slide_hint # last_slide_hint /\ current_slide # <<>>
             THEN GroupByHintFromZero(entries, i + 1,
                                      Append(slide_groups, current_slide),
                                      <<entry>>, last_slide_hint)
             ELSE GroupByHintFromZero(entries, i + 1, slide_groups,
                                      Append(current_slide, entry),
                                      last_slide_hint)

\* The grouping loop of organize_into_slides (`for entry in &entries`).
RECURSIVE GroupByHint(_, _, _, _, _)
GroupByHint(entries, i, slide_groups, current_slide, last_slide_hint) ==
    IF i > Len(entries)
    THEN IF current_slide # <<>> THEN Append(slide_groups, current_slide)
         ELSE slide_groups
    ELSE LET entry == entries[i]
         IN  IF entry.slide_hint # last_slide_hint /\ current_slide # <<>>
             THEN GroupByHint(entries, i + 1, Append(slide_groups, current_slide),
                              <<entry>>, entry.slide_hint)
             ELSE GroupByHint(entries, i + 1, slide_groups,
                              Append(current_slide, entry), entry.slide_hint)

IsTitleType(text_type) == text_type \in {"Title", "CenterTitle"}

\* split_by_titles
RECURSIVE SplitLoop(_, _, _, _)
SplitLoop(entries, i, groups, current_group) ==
    IF i > Len(entries)
    THEN IF current_group # <<>> THEN Append(groups, current_group) ELSE groups
    ELSE LET entry == entries[i]
         IN  IF IsTitleType(entry.text_type) /\ current_group # <<>>
             THEN SplitLoop(entries, i + 1, Append(groups, current_group), <<entry>>)
             ELSE SplitLoop(entries, i + 1, groups, Append(current_group, entry))

split_by_titles(entries) == SplitLoop(entries, 1, <<>>, <<>>)

\* sorted.sort_by_key(|e| e.position): a stable sort
RECURSIVE SortByPosition(_)
SortByPosition(group) ==
    IF group = <<>> THEN <<>>
    ELSE LET n == Len(group)
             e == group[n]
             rest == SortByPosition(SubSeq(group, 1, n - 1))
             before == {i \in 1..Len(rest) : rest[i].position <= e.position}
             k == IF before = {} THEN 0
                  ELSE CHOOSE i \in before : \A j \in before : j <= i
         IN  SubSeq(rest, 1, k) \o <<e>> \o SubSeq(rest, k + 1, Len(rest))

\* SlideText::new
SlideText(text) == [text |-> text, y_position |-> None, x_position |-> None]

\* A variant of the slide of one group that adds the sorted entries in one
\* pass, titles where they stand.
SlideOfGroupInOrder(i, group) ==
    LET sorted == SortByPosition(group)
    IN  [number |-> i,
         lines |-> [k \in 1..Len(sorted) |-> SlideText(sorted[k].text)],
         notes |-> None]

\* A variant of the slide of one group that numbers the slide by the
\* persistence count of its first entry.
SlideOfGroupNumberedByHint(i, group) ==
    LET sorted == SortByPosition(group)
        IsT(e) == IsTitleType(e.text_type)
        IsB(e) == ~IsTitleType(e.text_type)
        ordered == SelectSeq(sorted, IsT) \o SelectSeq(sorted, IsB)
    IN  [number |-> group[1].slide_hint,
         lines |-> [k \in 1..Len(ordered) |-> SlideText(ordered[k].text)],
         notes |-> None]

\* The body of `for (i, group) in slide_groups.iter().enumerate()`: the
\* slide of one group, titles first.
SlideOfGroup(i, group) ==
    LET sorted == SortByPosition(group)
        IsT(e) == IsTitleType(e.text_type)
        IsB(e) == ~IsTitleType(e.text_type)
        ordered == SelectSeq(sorted, IsT) \o SelectSeq(sorted, IsB)
    IN  [number |-> i,
         lines |-> [k \in 1..Len(ordered) |-> SlideText(ordered[k].text)],
         notes |-> None]

RECURSIVE SlidesOfGroups(_, _)
SlidesOfGroups(slide_groups, i) ==
    IF i > Len(slide_groups) THEN <<>>
    ELSE LET slide == SlideOfGroup(i, slide_groups[i])
         IN  (IF slide.lines # <<>> THEN <<slide>> ELSE <<>>)
             \o SlidesOfGroups(slide_groups, i + 1)

\* A variant of the choice of the groups that always splits by titles.
SlideGroupsAlwaysSplit(entries) == split_by_titles(entries)

\* The groups organize_into_slides makes its slides of: those of the
\* grouping loop, or of split_by_titles if the loop gave one group of more
\* than one entry.
SlideGroups(entries) ==
    LET byHint == GroupByHint(entries, 1, <<>>, <<>>, 0)
    IN  IF Len(byHint) = 1 /\ Len(byHint[1]) > 1
        THEN split_by_titles(entries)
        ELSE byHint

organize_into_slides(entries) ==
    IF entries = <<>> THEN <<>>
    ELSE SlidesOfGroups(SlideGroups(entries), 1)

-----------------------------------------------------------------------------
(* Streams of the parser model, built record by record.                    *)

U16LE(v) == <<v % 256, v \div 256>>
U32LE(u) == U16LE(u.lo) \o U16LE(u.hi)

\* An 8-byte record header (instance 0).
Header(rec_ver, rec_type, rec_len) ==
    U16LE(rec_ver) \o U16LE(rec_type) \o U32LE(rec_len)

Atom(rec_type, body) == Header(0, rec_type, ToU32(Len(body))) \o body
Container(rec_type, body) == Header(15, rec_type, ToU32(Len(body))) \o body

TextHeaderAtom(code) == Atom(RT_TEXT_HEADER_ATOM, U32LE(ToU32(code)))
TextBytesAtom(bytes) == Atom(RT_TEXT_BYTES_ATOM, bytes)
TextCharsAtom(bytes) == Atom(RT_TEXT_CHARS_ATOM, bytes)
PersistAtom == Atom(RT_SLIDE_PERSIST_ATOM, <<>>)
\* A Text-Header whose body is too short to hold a text type.
ShortHeaderAtom == Atom(RT_TEXT_HEADER_ATOM, <<2, 0>>)
\* A header that declares 4096 bytes of body and has none: malformed.
OverrunAtom == Header(0, 0, ToU32(4096))

\* n bytes that one unknown leaf record covers (zeros when n < 8).
Filler(n) ==
    IF n <= 0 THEN <<>>
    ELSE IF n < 8 THEN Repeat(0, n)
    ELSE Header(0, 0, ToU32(n - 8)) \o Repeat(0, n - 8)

PadTo(stream, total) == stream \o Filler(total - Len(stream))
ZeroPadTo(stream, total) ==
    stream \o Repeat(0, IF total > Len(stream) THEN total - Len(stream) ELSE 0)

RECURSIVE Concat(_)
Concat(seqs) == IF seqs = <<>> THEN <<>> ELSE Head(seqs) \o Concat(Tail(seqs))

MaxItems == 2
MaxBad == 12
MaxSteps == 80

StrHi == <<72, 105>>                 \* "Hi"
StrTest == <<84, 101, 115, 116>>     \* "Test"

Items ==
    { TextHeaderAtom(0), TextHeaderAtom(2), TextHeaderAtom(3),
      TextHeaderAtom(9), ShortHeaderAtom,
      TextBytesAtom(StrHi), TextBytesAtom(<<42>>),
      TextCharsAtom(<<72, 0, 105, 0>>),
      PersistAtom, OverrunAtom,
      Container(RT_SLIDE, TextHeaderAtom(2) \o TextBytesAtom(<<78, 111>>)),
      Container(RT_SLIDE, TextHeaderAtom(0) \o PersistAtom)
          \o TextBytesAtom(<<78, 111>>) }

ItemSeqs == UNION { [1..n -> Items] : n \in 0..MaxItems }

\* Up to MaxItems records, inside a Document container or bare.
StructureStreams ==
    { PadTo(IF doc THEN Container(RT_DOCUMENT, Concat(its)) ELSE Concat(its),
            MIN_STREAM_SIZE) : doc \in BOOLEAN, its \in ItemSeqs }

\* n containers that each hold one malformed record, after an optional
\* Document container and an optional pair of text records.
BadContainers(n) == Concat([i \in 1..n |-> Container(RT_SLIDE, OverrunAtom)])

MalformedStreams ==
    { PadTo((IF doc THEN Container(RT_DOCUMENT, <<>>) ELSE <<>>)
            \o (IF txt THEN TextHeaderAtom(1) \o TextBytesAtom(StrHi) ELSE <<>>)
            \o BadContainers(n), MIN_STREAM_SIZE) :
        doc \in BOOLEAN, txt \in BOOLEAN, n \in 0..MaxBad }

\* Streams below the minimum size, with a Document marker and text records.
ShortStreams ==
    LET body == Container(RT_DOCUMENT, TextHeaderAtom(1) \o TextBytesAtom(StrHi))
    IN  { <<>>, body, PadTo(body, MIN_STREAM_SIZE - 1),
          PadTo(BadContainers(11), MIN_STREAM_SIZE - 1) }

\* The streams of the unit tests, cut to the minimum size: records laid over
\* a zeroed buffer.
TestStreams ==
    { ZeroPadTo(Header(15, RT_DOCUMENT, ToU32(100)) \o TextHeaderAtom(1)
                \o TextBytesAtom(StrTest), MIN_STREAM_SIZE),
      ZeroPadTo(Header(15, RT_DOCUMENT, ToU32(100)) \o TextHeaderAtom(99)
                \o TextBytesAtom(StrTest), MIN_STREAM_SIZE),
      ZeroPadTo(Header(0, 1, ToU32(8)), MIN_STREAM_SIZE) }

\* Records whose declared length is 2^31 or more.
HugeLens ==
    { [hi |-> 32768, lo |-> 0],        \* 0x80000000
      [hi |-> 65535, lo |-> 65528],    \* 0xFFFFFFF8
      [hi |-> 65535, lo |-> 65529] }   \* 0xFFFFFFF9

HugeStreams ==
    { PadTo(Container(RT_DOCUMENT, TextHeaderAtom(1) \o TextBytesAtom(StrHi))
            \o Header(0, t, l), MIN_STREAM_SIZE) :
        t \in {0, RT_TEXT_BYTES_ATOM, RT_TEXT_CHARS_ATOM}, l \in HugeLens }

Streams ==
    StructureStreams \cup MalformedStreams \cup ShortStreams
    \cup TestStreams \cup HugeStreams

-----------------------------------------------------------------------------
(* PptParser::parse                                                        *)

\* What the reader handed to parse can be: a compound file with a
\* "PowerPoint Document" stream that reads, no compound file, a compound
\* file without that stream, or one whose stream cannot be opened or read.
FileKinds == {"ok", "not_cfb", "no_stream", "unreadable"}

PptInit ==
    /\ DetectIdle
    /\ TextIdle
    /\ LaterIdle
    /\ LastIdle
    /\ pBuild \in Builds
    /\ pFile \in FileKinds
    /\ pData \in IF pFile = "ok" THEN Streams ELSE {<<>>}
    /\ pPc = "open"
    /\ pStack = <<>>
    /\ pVal = DefaultValidation
    /\ pResult = "none"
    /\ pCurType = "Body"
    /\ pPersist = 0
    /\ pEntries = <<>>
    /\ pSlides = <<>>
    /\ pVTrace = <<>>
    /\ pETrace = <<>>
    /\ pSeen = <<>>

\* PptParser::parse up to its call of validate_stream: CompoundFile::open,
\* validate_cfb_structure and read_powerpoint_stream.  Each returns early
\* with an error; no stream has been read then.
ReadPowerpointStream ==
    /\ pPc = "open"
    /\ IF pFile = "ok"
       THEN pPc' = "start" /\ UNCHANGED pResult
       ELSE /\ pPc' = "no_stream"
            /\ pResult' = IF pFile = "no_stream" THEN "UnsupportedFormat"
                          ELSE "CfbError"
    /\ UNCHANGED <<pBuild, pFile, pData, pStack, pVal, pCurType, pPersist,
                   pEntries, pSlides, pVTrace, pETrace, pSeen>>
    /\ UNCHANGED <<detectVars, textVars, laterVars, lastVars>>

\* A variant of the start of validate_stream without the minimum-size check.
ValidateStreamBeginUnchecked ==
    /\ pPc = "start"
    /\ pPc' = "scan"
    /\ pVal' = [DefaultValidation EXCEPT !.stream_size = Len(pData)]
    /\ pStack' = Unwind(<<[pos |-> 0, end |-> Len(pData)]>>)
    /\ UNCHANGED <<pBuild, pFile, pData, pResult, pCurType, pPersist, pEntries,
                   pSlides, pVTrace, pETrace, pSeen>>
    /\ UNCHANGED <<detectVars, textVars, laterVars, lastVars>>

\* validate_stream up to its call of scan_records_for_validation.
ValidateStreamBegin ==
    /\ pPc = "start"
    /\ IF Len(pData) < MIN_STREAM_SIZE
       THEN /\ pPc' = "failed"
            /\ pResult' = "CorruptedFile"
            /\ UNCHANGED <<pVal, pStack>>
       ELSE /\ pPc' = "scan"
            /\ pVal' = [DefaultValidation EXCEPT !.stream_size = Len(pData)]
            /\ pStack' = Unwind(<<[pos |-> 0, end |-> Len(pData)]>>)
            /\ UNCHANGED pResult
    /\ UNCHANGED <<pBuild, pFile, pData, pCurType, pPersist, pEntries, pSlides,
                   pVTrace, pETrace, pSeen>>
    /\ UNCHANGED <<detectVars, textVars, laterVars, lastVars>>

\* One iteration of the loop of scan_records_for_validation, in the
\* innermost active call.
ScanRecordsForValidation ==
    /\ pPc = "scan"
    /\ pStack # <<>>
    /\ Len(pVTrace) < MaxSteps
    /\ LET top == pStack[Len(pStack)]
           h == ScanHeader(pBuild, pData, top.pos, top.end)
       IN  /\ pVTrace' = Append(pVTrace, h)
           /\ IF h.panic
              THEN /\ pPc' = "panicked"
                   /\ pResult' = "Panic"
                   /\ UNCHANGED <<pVal, pStack>>
              ELSE IF h.malformed
              THEN /\ pVal' = [pVal EXCEPT !.malformed_records = @ + 1]
                   /\ pStack' = Break(pStack)
                   /\ UNCHANGED <<pPc, pResult>>
              ELSE /\ pVal' = ScanTally(pVal, h, pData)
                   /\ pStack' = ScanAdvance(pStack, h)
                   /\ UNCHANGED <<pPc, pResult>>
    /\ UNCHANGED <<pBuild, pFile, pData, pCurType, pPersist, pEntries, pSlides,
                   pETrace, pSeen>>
    /\ UNCHANGED <<detectVars, textVars, laterVars, lastVars>>

\* validate_stream after the scan: the checks for required elements.
ValidateStreamEnd ==
    /\ pPc = "scan"
    /\ pStack = <<>>
    /\ IF ValidationVerdict(pVal) = "Ok"
       THEN pPc' = "validated" /\ UNCHANGED pResult
       ELSE pPc' = "failed" /\ pResult' = ValidationVerdict(pVal)
    /\ UNCHANGED <<pBuild, pFile, pData, pStack, pVal, pCurType, pPersist, pEntries,
                   pSlides, pVTrace, pETrace, pSeen>>
    /\ UNCHANGED <<detectVars, textVars, laterVars, lastVars>>

\* collect_text_entries up to its call of parse_records_recursive.
CollectTextEntries ==
    /\ pPc = "validated"
    /\ pPc' = "parse"
    /\ pEntries' = <<>>
    /\ pCurType' = "Body"
    /\ pPersist' = 0
    /\ pStack' = Unwind(<<[pos |-> 0, end |-> Len(pData)]>>)
    /\ UNCHANGED <<pBuild, pFile, pData, pVal, pResult, pSlides, pVTrace, pETrace,
                   pSeen>>
    /\ UNCHANGED <<detectVars, textVars, laterVars, lastVars>>

\* A variant of the Text-Header arm in which every other record puts the
\* text type back to Body.
HeaderArmNextRecordOnly(current_text_type, h, data) ==
    IF /\ h.rec_type = RT_TEXT_HEADER_ATOM
       /\ U32AtLeast(h.rec_len, 4)
       /\ h.content_start + 4 <= Len(data)
    THEN from_u32(read_u32_le(data, h.content_start))
    ELSE IF h.rec_type \in {RT_TEXT_CHARS_ATOM, RT_TEXT_BYTES_ATOM}
    THEN current_text_type
    ELSE "Body"

\* The Text-Header arm of parse_records_recursive: the current text type
\* after the record h.
HeaderArm(current_text_type, h, data) ==
    IF /\ h.rec_type = RT_TEXT_HEADER_ATOM
       /\ U32AtLeast(h.rec_len, 4)
       /\ h.content_start + 4 <= Len(data)
    THEN from_u32(read_u32_le(data, h.content_start))
    ELSE current_text_type

\* The two text-run arms of parse_records_recursive: decode, filter, push.
TextArm(h) ==
    LET r == IF h.rec_type = RT_TEXT_CHARS_ATOM
             THEN extract_unicode_text(pBuild, pData, h.content_start, h.rec_len)
             ELSE extract_ansi_text(pBuild, pData, h.content_start, h.rec_len)
        kept == r.text # None /\ is_valid_slide_text(r.text[1], pCurType)
    IN  [panic |-> r.panic,
         kept |-> ~r.panic /\ kept,
         text |-> r.text,
         entry |-> [text |-> IF r.text = None THEN <<>> ELSE r.text[1],
                    text_type |-> pCurType,
                    position |-> h.pos,
                    slide_hint |-> pPersist]]

\* One iteration of the loop of parse_records_recursive, in the innermost
\* active call.
ParseRecordsRecursive ==
    /\ pPc = "parse"
    /\ pStack # <<>>
    /\ Len(pETrace) < MaxSteps
    /\ LET top == pStack[Len(pStack)]
           h == ParseHeader(pBuild, pData, top.pos, top.end)
           isText == h.rec_type \in {RT_TEXT_CHARS_ATOM, RT_TEXT_BYTES_ATOM}
           arm == TextArm(h)
       IN  /\ pETrace' = Append(pETrace, h)
           /\ IF h.panic
              THEN /\ pPc' = "panicked"
                   /\ pResult' = "Panic"
                   /\ UNCHANGED <<pStack, pCurType, pPersist, pEntries, pSeen>>
              ELSE IF h.malformed
              THEN /\ pStack' = Break(pStack)
                   /\ UNCHANGED <<pPc, pResult, pCurType, pPersist, pEntries,
                                  pSeen>>
              ELSE IF isText /\ arm.panic
              THEN /\ pPc' = "panicked"
                   /\ pResult' = "Panic"
                   /\ pSeen' = Append(pSeen, [idx |-> Len(pETrace) + 1,
                                              pos |-> h.pos,
                                              text_type |-> pCurType,
                                              text |-> None, kept |-> FALSE])
                   /\ UNCHANGED <<pStack, pCurType, pPersist, pEntries>>
              ELSE /\ pPersist' = IF h.rec_type = RT_SLIDE_PERSIST_ATOM
                                  THEN pPersist + 1 ELSE pPersist
                   /\ pCurType' = HeaderArm(pCurType, h, pData)
                   /\ pEntries' = IF isText /\ arm.kept
                                  THEN Append(pEntries, arm.entry) ELSE pEntries
                   /\ pSeen' = IF isText
                               THEN Append(pSeen, [idx |-> Len(pETrace) + 1,
                                                   pos |-> h.pos,
                                                   text_type |-> pCurType,
                                                   text |-> arm.text,
                                                   kept |-> arm.kept])
                               ELSE pSeen
                   /\ pStack' = ParseAdvance(pStack, h)
                   /\ UNCHANGED <<pPc, pResult>>
    /\ UNCHANGED <<pBuild, pFile, pData, pVal, pSlides, pVTrace>>
    /\ UNCHANGED <<detectVars, textVars, laterVars, lastVars>>

\* extract_text_from_stream after the traversal (organize_into_slides) and
\* the rest of parse: the slides are added to the Presentation, Ok.
OrganizeIntoSlides ==
    /\ pPc = "parse"
    /\ pStack = <<>>
    /\ pPc' = "done"
    /\ pSlides' = organize_into_slides(pEntries)
    /\ pResult' = "Ok"
    /\ UNCHANGED <<pBuild, pFile, pData, pStack, pVal, pCurType, pPersist, pEntries,
                   pVTrace, pETrace, pSeen>>
    /\ UNCHANGED <<detectVars, textVars, laterVars, lastVars>>

PptNext ==
    \/ ReadPowerpointStream
    \/ ValidateStreamBegin
    \/ ScanRecordsForValidation
    \/ ValidateStreamEnd
    \/ CollectTextEntries
    \/ ParseRecordsRecursive
    \/ OrganizeIntoSlides

SpecPpt == PptInit /\ [][PptNext]_vars


-----------------------------------------------------------------------------
(* Slide assembly.  The legacy side is organize_into_slides applied to the *)
(* entry lists collect_text_entries can return: byte offsets increase and  *)
(* the persistence count never decreases along the list, and every text is *)
(* one that passed the content filter.                                     *)
MaxEntries == 4

EntryTypes == {"Title", "CenterTitle", "Body", "Other"}

RECURSIVE SumTo(_, _)
SumTo(steps, i) == IF i = 0 THEN 0 ELSE steps[i] + SumTo(steps, i - 1)

\* Entry i is the text "A", "B", ... found at offset 512 + 16 * i, with the
\* persistence count reached after the given steps.
MakeEntries(types, steps) ==
    [i \in 1..Len(types) |->
        [text |-> <<64 + i>>,
         text_type |-> types[i],
         position |-> 512 + 16 * i,
         slide_hint |-> SumTo(steps, i)]]

EntriesInit ==
    /\ DetectIdle
    /\ TextIdle
    /\ PptIdle
    /\ LastIdle
    /\ UnicodeIdle
    /\ ManifestIdle
    /\ ShapesIdle
    /\ NormIdle
    /\ \E n \in 0..MaxEntries :
          \E types \in [1..n -> EntryTypes], steps \in [1..n -> {0, 1}] :
              sEntries = MakeEntries(types, steps)
    /\ sPc = "start"
    /\ sByHint = <<>>
    /\ sGroups = <<>>
    /\ sSlides = <<>>

\* organize_into_slides(entries), with the groups it went through.
OrganizeEntries ==
    /\ sPc = "start"
    /\ sPc' = "done"
    /\ sByHint' = IF sEntries = <<>> THEN <<>>
                  ELSE GroupByHint(sEntries, 1, <<>>, <<>>, 0)
    /\ sGroups' = IF sEntries = <<>> THEN <<>> ELSE SlideGroups(sEntries)
    /\ sSlides' = organize_into_slides(sEntries)
    /\ UNCHANGED sEntries
    /\ UNCHANGED <<detectVars, textVars, pptVars, unicodeVars, pptxVars, normVars,
                   lastVars>>

(* Modern parser: crates/pptx/src/parser.rs.  Strings are sequences of     *)
(* code points; the relationships manifest is the sequence of its          *)
(* Relationship elements [id, target, rel_type] in document order.         *)

\* "/slide"
StrSlashSlide == <<47, 115, 108, 105, 100, 101>>

\* "slideLayout"
StrSlideLayout == <<115, 108, 105, 100, 101, 76, 97, 121, 111, 117, 116>>

\* "slideMaster"
StrSlideMaster == <<115, 108, 105, 100, 101, 77, 97, 115, 116, 101, 114>>

\* ".xml"
StrDotXml == <<46, 120, 109, 108>>

\* ".rels"
StrDotRels == <<46, 114, 101, 108, 115>>

\* "ppt/"
StrPptSlash == <<112, 112, 116, 47>>

\* "http://schemas.openxmlformats.org/officeDocument/2006/relationships/slide"
TypeSlide ==
    <<104, 116, 116, 112, 58, 47, 47, 115, 99, 104, 101, 109, 97, 115, 46,
      111, 112, 101, 110, 120, 109, 108, 102, 111, 114, 109, 97, 116, 115,
      46, 111, 114, 103, 47, 111, 102, 102, 105, 99, 101, 68, 111, 99, 117,
      109, 101, 110, 116, 47, 50, 48, 48, 54, 47, 114, 101, 108, 97, 116,
      105, 111, 110, 115, 104, 105, 112, 115, 47, 115, 108, 105, 100, 101>>

\* "http://schemas.openxmlformats.org/officeDocument/2006/relationships/slideMaster"
TypeSlideMaster ==
    <<104, 116, 116, 112, 58, 47, 47, 115, 99, 104, 101, 109, 97, 115, 46,
      111, 112, 101, 110, 120, 109, 108, 102, 111, 114, 109, 97, 116, 115,
      46, 111, 114, 103, 47, 111, 102, 102, 105, 99, 101, 68, 111, 99, 117,
      109, 101, 110, 116, 47, 50, 48, 48, 54, 47, 114, 101, 108, 97, 116,
      105, 111, 110, 115, 104, 105, 112, 115, 47, 115, 108, 105, 100, 101,
      77, 97, 115, 116, 101, 114>>

\* "http://schemas.openxmlformats.org/officeDocument/2006/relationships/theme"
TypeTheme ==
    <<104, 116, 116, 112, 58, 47, 47, 115, 99, 104, 101, 109, 97, 115, 46,
      111, 112, 101, 110, 120, 109, 108, 102, 111, 114, 109, 97, 116, 115,
      46, 111, 114, 103, 47, 111, 102, 102, 105, 99, 101, 68, 111, 99, 117,
      109, 101, 110, 116, 47, 50, 48, 48, 54, 47, 114, 101, 108, 97, 116,
      105, 111, 110, 115, 104, 105, 112, 115, 47, 116, 104, 101, 109, 101>>

\* str::ends_with(&str)
EndsWith(s, p) ==
    /\ Len(s) >= Len(p)
    /\ SubSeq(s, Len(s) - Len(p) + 1, Len(s)) = p

\* str::trim_end_matches(&str): the suffix is removed as often as it ends s.
RECURSIVE TrimEndMatches(_, _)
TrimEndMatches(s, p) ==
    IF p # <<>> /\ EndsWith(s, p)
    THEN TrimEndMatches(SubSeq(s, 1, Len(s) - Len(p)), p)
    ELSE s

\* char::is_ascii_digit
IsAsciiDigit(c) == c >= 48 /\ c <= 57

\* s.chars().rev().take_while(|c| c.is_ascii_digit()), put back in order.
TrailingDigits(s) ==
    LET others == { i \in 1..Len(s) : ~IsAsciiDigit(s[i]) }
        last == IF others = {} THEN 0
                ELSE CHOOSE i \in others : \A j \in others : j <= i
    IN  SubSeq(s, last + 1, Len(s))

\* Ord::cmp on two numbers
NumCmp(a, b) == IF a < b THEN "Less" ELSE IF a > b THEN "Greater" ELSE "Equal"

\* Ord::cmp on two strings: lexicographic on the bytes, which orders as the
\* code points do.
RECURSIVE StrCmp(_, _)
StrCmp(a, b) ==
    IF a = <<>> THEN (IF b = <<>> THEN "Equal" ELSE "Less")
    ELSE IF b = <<>> THEN "Greater"
    ELSE IF Head(a) # Head(b) THEN NumCmp(Head(a), Head(b))
    ELSE StrCmp(Tail(a), Tail(b))

\* usize::MAX of the build, in decimal digits.
UsizeMaxDigits(build) ==
    IF build = "usize64"
    THEN <<49, 56, 52, 52, 54, 55, 52, 52, 48, 55, 51, 55, 48, 57, 53, 53, 49,
           54, 49, 53>>                              \* 18446744073709551615
    ELSE <<52, 50, 57, 52, 57, 54, 55, 50, 57, 53>>  \* 4294967295

\* The digits without their leading zeros.
StripZeros(digits) ==
    LET others == { i \in 1..Len(digits) : digits[i] # 48 }
    IN  IF others = {} THEN <<>>
        ELSE SubSeq(digits, CHOOSE i \in others : \A j \in others : i <= j,
                    Len(digits))

\* The value of a string of ASCII digits.
RECURSIVE DigitsValue(_)
DigitsValue(digits) ==
    IF digits = <<>> THEN 0
    ELSE 10 * DigitsValue(SubSeq(digits, 1, Len(digits) - 1))
         + (digits[Len(digits)] - 48)

\* str::parse::<usize>().ok() on a non-empty string of ASCII digits: None
\* when the number is above usize::MAX.
ParseDigits(build, digits) ==
    LET d == StripZeros(digits)
        m == UsizeMaxDigits(build)
    IN  IF Len(d) > Len(m) \/ (Len(d) = Len(m) /\ StrCmp(d, m) = "Greater")
        THEN None
        ELSE Some(DigitsValue(d))

\* extract_slide_number(s): Option<usize>
extract_slide_number(build, s) ==
    LET t == TrimEndMatches(TrimEndMatches(s, StrDotXml), StrDotRels)
        digits == TrailingDigits(t)
    IN  IF digits = <<>> THEN None ELSE ParseDigits(build, digits)

\* The condition of line 71 on the Type attribute.
IsSlideRelationship(rel_type) ==
    /\ Contains(rel_type, StrSlashSlide)
    /\ ~Contains(rel_type, StrSlideLayout)
    /\ ~Contains(rel_type, StrSlideMaster)

\* full_path of a target
FullPath(target) ==
    IF target # <<>> /\ target[1] = 47
    THEN SubSeq(target, 2, Len(target))
    ELSE StrPptSlash \o target

\* or_else on two Option values
OrElse(a, b) == IF a # None THEN a ELSE b

\* The reading loop of get_slide_order: one (path, order_num) pair for each
\* slide relationship, in manifest order.
RECURSIVE CollectSlides(_, _)
CollectSlides(build, rels) ==
    IF rels = <<>> THEN <<>>
    ELSE LET rel == Head(rels)
             order_num == OrElse(extract_slide_number(build, rel.id),
                                 extract_slide_number(build, rel.target))
         IN  (IF IsSlideRelationship(rel.rel_type)
              THEN <<[path |-> FullPath(rel.target), order_num |-> order_num]>>
              ELSE <<>>)
             \o CollectSlides(build, Tail(rels))

\* The comparator of slides.sort_by in get_slide_order.
SlideOrderCmp(a, b) ==
    IF a.order_num # None /\ b.order_num # None
    THEN NumCmp(a.order_num[1], b.order_num[1])
    ELSE IF a.order_num # None THEN "Less"
    ELSE IF b.order_num # None THEN "Greater"
    ELSE StrCmp(a.path, b.path)

\* slides.sort_by(..): a stable sort
RECURSIVE SortSlides(_)
SortSlides(slides) ==
    IF slides = <<>> THEN <<>>
    ELSE LET n == Len(slides)
             e == slides[n]
             rest == SortSlides(SubSeq(slides, 1, n - 1))
             before == { i \in 1..Len(rest) : SlideOrderCmp(rest[i], e) # "Greater" }
             k == IF before = {} THEN 0
                  ELSE CHOOSE i \in before : \A j \in before : j <= i
         IN  SubSeq(rest, 1, k) \o <<e>> \o SubSeq(rest, k + 1, Len(rest))

\* PptxParser::get_slide_order on a manifest that is read without error.
get_slide_order(build, rels) ==
    LET sorted == SortSlides(CollectSlides(build, rels))
    IN  [k \in 1..Len(sorted) |-> sorted[k].path]

\* SlideText::with_position
SlideTextWithPosition(text, y, x) ==
    [text |-> text, y_position |-> Some(y), x_position |-> Some(x)]

\* Option<f64>::partial_cmp on finite numbers: None is less than Some.
OptionCmp(a, b) ==
    IF a = None THEN (IF b = None THEN "Equal" ELSE "Less")
    ELSE IF b = None THEN "Greater"
    ELSE NumCmp(a[1], b[1])

\* The comparator of ExtractedSlide::sort_by_position.
PositionCmp(a, b) ==
    LET y_cmp == OptionCmp(a.y_position, b.y_position)
    IN  IF y_cmp = "Equal" THEN OptionCmp(a.x_position, b.x_position)
        ELSE y_cmp

\* ExtractedSlide::sort_by_position: a stable sort of the lines
RECURSIVE sort_by_position(_)
sort_by_position(lines) ==
    IF lines = <<>> THEN <<>>
    ELSE LET n == Len(lines)
             e == lines[n]
             rest == sort_by_position(SubSeq(lines, 1, n - 1))
             before == { i \in 1..Len(rest) : PositionCmp(rest[i], e) # "Greater" }
             k == IF before = {} THEN 0
                  ELSE CHOOSE i \in before : \A j \in before : j <= i
         IN  SubSeq(rest, 1, k) \o <<e>> \o SubSeq(rest, k + 1, Len(rest))

\* A shape element of a slide's XML is [text, off_x, off_y]: the text
\* collected from its paragraphs, and the x and y attributes of its `off`
\* element, None for an attribute (or a whole element) that is not there.
\* ShapeInfo of it: x and y start at the Default 0.0 and are overwritten by
\* the attributes present; the text is trimmed.
ShapeInfo(shape) ==
    [text |-> TrimStr(shape.text),
     x |-> IF shape.off_x = None THEN 0 ELSE shape.off_x[1],
     y |-> IF shape.off_y = None THEN 0 ELSE shape.off_y[1]]

\* extract_shapes_from_xml: the shapes whose trimmed text is not empty.
RECURSIVE extract_shapes_from_xml(_)
extract_shapes_from_xml(xml) ==
    IF xml = <<>> THEN <<>>
    ELSE LET shape == ShapeInfo(Head(xml))
         IN  (IF shape.text # <<>> THEN <<shape>> ELSE <<>>)
             \o extract_shapes_from_xml(Tail(xml))

\* The `for shape in shapes` loop of parse_slide.
RECURSIVE AddShapeLines(_)
AddShapeLines(shapes) ==
    IF shapes = <<>> THEN <<>>
    ELSE LET shape == Head(shapes)
         IN  (IF TrimStr(shape.text) # <<>>
              THEN <<SlideTextWithPosition(shape.text, shape.y, shape.x)>>
              ELSE <<>>)
             \o AddShapeLines(Tail(shapes))

\* PptxParser::parse_slide on the shape elements of the slide's file.
parse_slide(xml, slide_number) ==
    [number |-> slide_number,
     lines |-> sort_by_position(AddShapeLines(extract_shapes_from_xml(xml))),
     notes |-> None]

\* Inputs of the manifest side: up to MaxRels different relationships of
\* the set below, in any order.  Two pairs of them have equal hints (rId1
\* and rId01; rId2 and the target slide02.xml), two have none, one has an
\* id whose number is above usize::MAX, and two are not slide
\* relationships.
MaxRels == 3

Relationships ==
    { \* Id="rId1" Target="slides/slide1.xml"
      [id |-> <<114, 73, 100, 49>>,
       target |-> <<115, 108, 105, 100, 101, 115, 47, 115, 108, 105, 100, 101, 49, 46, 120, 109, 108>>,
       rel_type |-> TypeSlide],
      \* Id="rId2" Target="slides/slide2.xml"
      [id |-> <<114, 73, 100, 50>>,
       target |-> <<115, 108, 105, 100, 101, 115, 47, 115, 108, 105, 100, 101, 50, 46, 120, 109, 108>>,
       rel_type |-> TypeSlide],
      \* Id="rId01" Target="slides/slide3.xml"
      [id |-> <<114, 73, 100, 48, 49>>,
       target |-> <<115, 108, 105, 100, 101, 115, 47, 115, 108, 105, 100, 101, 51, 46, 120, 109, 108>>,
       rel_type |-> TypeSlide],
      \* Id="relA" Target="/ppt/slides/slide02.xml"
      [id |-> <<114, 101, 108, 65>>,
       target |-> <<47, 112, 112, 116, 47, 115, 108, 105, 100, 101, 115, 47, 115, 108, 105, 100, 101, 48, 50, 46, 120, 109, 108>>,
       rel_type |-> TypeSlide],
      \* Id="relB" Target="slides/first.xml"
      [id |-> <<114, 101, 108, 66>>,
       target |-> <<115, 108, 105, 100, 101, 115, 47, 102, 105, 114, 115, 116, 46, 120, 109, 108>>,
       rel_type |-> TypeSlide],
      \* Id="relC" Target="slides/cover.xml"
      [id |-> <<114, 101, 108, 67>>,
       target |-> <<115, 108, 105, 100, 101, 115, 47, 99, 111, 118, 101, 114, 46, 120, 109, 108>>,
       rel_type |-> TypeSlide],
      \* Id="rId99999999999999999999" Target="slides/slide5.xml"
      [id |-> <<114, 73, 100, 57, 57, 57, 57, 57, 57, 57, 57, 57, 57, 57, 57, 57, 57, 57, 57, 57, 57, 57, 57>>,
       target |-> <<115, 108, 105, 100, 101, 115, 47, 115, 108, 105, 100, 101, 53, 46, 120, 109, 108>>,
       rel_type |-> TypeSlide],
      \* Id="rId3" Target="slideMasters/slideMaster1.xml"
      [id |-> <<114, 73, 100, 51>>,
       target |-> <<115, 108, 105, 100, 101, 77, 97, 115, 116, 101, 114, 115, 47, 115, 108, 105, 100, 101, 77, 97, 115, 116, 101, 114, 49, 46, 120, 109, 108>>,
       rel_type |-> TypeSlideMaster],
      \* Id="rId4" Target="theme/theme1.xml"
      [id |-> <<114, 73, 100, 52>>,
       target |-> <<116, 104, 101, 109, 101, 47, 116, 104, 101, 109, 101, 49, 46, 120, 109, 108>>,
       rel_type |-> TypeTheme] }

Manifests ==
    UNION { { rels \in [1..n -> Relationships] :
                \A i, j \in 1..n : i # j => rels[i] # rels[j] } :
            n \in 0..MaxRels }

\* The file of a slide in the archives of the manifest side: one shape
\* whose text is the path of the file.
ArchiveSlide(path) == <<[text |-> path, off_x |-> None, off_y |-> None]>>

ManifestInit ==
    /\ DetectIdle
    /\ TextIdle
    /\ \E build \in Builds : PptIdleOn(build)
    /\ LastIdle
    /\ UnicodeIdle
    /\ SlideIdle
    /\ ShapesIdle
    /\ NormIdle
    /\ xRels \in Manifests
    /\ xPc = "start"
    /\ xOrder = <<>>
    /\ xSlides = <<>>

\* PptxParser::parse on an archive whose manifest and slide files are read
\* without error.
PptxParse ==
    /\ xPc = "start"
    /\ xPc' = "done"
    /\ xOrder' = get_slide_order(pBuild, xRels)
    /\ xSlides' = LET slide_order == get_slide_order(pBuild, xRels)
                  IN  [idx \in 1..Len(slide_order) |->
                          parse_slide(ArchiveSlide(slide_order[idx]), idx)]
    /\ UNCHANGED <<xRels, hShapes, hPc, hLines>>
    /\ UNCHANGED <<detectVars, textVars, pptVars, unicodeVars, slideVars, normVars,
                   lastVars>>

\* Inputs of the slide side: up to MaxShapes shape elements; element i has
\* the text "A", "B", ... or is blank, and its offset is absent, partly
\* absent or one of four points.
MaxShapes == 3

OffsetValues == {100, 200}

ShapeKinds ==
    { [blank |-> FALSE, off_x |-> Some(x), off_y |-> Some(y)] :
        x \in OffsetValues, y \in OffsetValues }
    \cup { [blank |-> FALSE, off_x |-> None, off_y |-> None],
           [blank |-> FALSE, off_x |-> None, off_y |-> Some(100)],
           [blank |-> TRUE, off_x |-> None, off_y |-> None] }

MakeShapes(kinds) ==
    [i \in 1..Len(kinds) |->
        [text |-> IF kinds[i].blank THEN <<32>> ELSE <<32, 64 + i>>,
         off_x |-> kinds[i].off_x,
         off_y |-> kinds[i].off_y]]

SlideXmls ==
    UNION { { MakeShapes(kinds) : kinds \in [1..n -> ShapeKinds] } :
            n \in 0..MaxShapes }

ShapesInit ==
    /\ DetectIdle
    /\ TextIdle
    /\ PptIdle
    /\ LastIdle
    /\ UnicodeIdle
    /\ SlideIdle
    /\ ManifestIdle
    /\ NormIdle
    /\ hShapes \in SlideXmls
    /\ hPc = "start"
    /\ hLines = <<>>

\* PptxParser::parse_slide on a slide file that is read without error.
ParseSlide ==
    /\ hPc = "start"
    /\ hPc' = "done"
    /\ hLines' = parse_slide(hShapes, 1).lines
    /\ UNCHANGED <<hShapes, xRels, xPc, xOrder, xSlides>>
    /\ UNCHANGED <<detectVars, textVars, pptVars, unicodeVars, slideVars, normVars,
                   lastVars>>

AssemblyInit ==
    \/ EntriesInit
    \/ ManifestInit
    \/ ShapesInit

AssemblyNext ==
    \/ OrganizeEntries
    \/ PptxParse
    \/ ParseSlide

SpecAssembly == AssemblyInit /\ [][AssemblyNext]_vars

-----------------------------------------------------------------------------
(* Text normalizer: crates/core/src/normalize.rs                           *)

\* PUNCTUATION_CHARS
PUNCTUATION_CHARS ==
    { 46, 44, 59, 58, 63, 33,                   \* . , ; : ? !
      34,                                       \* " (written three times)
      8222, 8218,                               \* U+201E U+201A
      171, 187, 8249, 8250,                     \* guillemets
      40, 41, 91, 93, 123, 125, 60, 62,         \* ( ) [ ] { } < >
      8212, 8211, 45,                           \* em dash, en dash, -
      47, 92, 124,                              \* / \ |
      64, 35, 36, 37, 94, 38, 42, 95, 43, 61, 126, 96 }  \* @ # $ % ^ & * _ + = ~ `

\* APOSTROPHE_CHARS: ' U+2019 U+2018 `
APOSTROPHE_CHARS == {39, 8217, 8216, 96}

\* result.replace("\r\n", "\n").replace('\r', "\n")
RECURSIVE NormalizeLineEndings(_)
NormalizeLineEndings(s) ==
    IF s = <<>> THEN <<>>
    ELSE IF Head(s) = 13
    THEN IF Len(s) >= 2 /\ s[2] = 10
         THEN <<10>> \o NormalizeLineEndings(Tail(Tail(s)))
         ELSE <<10>> \o NormalizeLineEndings(Tail(s))
    ELSE <<Head(s)>> \o NormalizeLineEndings(Tail(s))

\* The character loop of normalize_line from index i (1-based) on.
RECURSIVE CharLoop(_, _)
CharLoop(chars, i) ==
    IF i > Len(chars) THEN <<>>
    ELSE LET c == chars[i]
             prev_is_letter == i > 1 /\ IsAlphabetic(chars[i - 1])
             next_is_letter == i + 1 <= Len(chars) /\ IsAlphabetic(chars[i + 1])
         IN  (IF c \in PUNCTUATION_CHARS THEN <<>>
              ELSE IF c \in APOSTROPHE_CHARS
              THEN (IF prev_is_letter /\ next_is_letter THEN <<39>> ELSE <<>>)
              ELSE <<c>>)
             \o CharLoop(chars, i + 1)

\* str::lines on a text without carriage returns: the pieces between line
\* feeds, without an empty piece after a final line feed.
RECURSIVE StrLines(_)
StrLines(s) ==
    IF s = <<>> THEN <<>>
    ELSE LET feeds == { i \in 1..Len(s) : s[i] = 10 }
         IN  IF feeds = {} THEN <<s>>
             ELSE LET first == CHOOSE i \in feeds : \A j \in feeds : i <= j
                  IN  <<SubSeq(s, 1, first - 1)>>
                      \o StrLines(SubSeq(s, first + 1, Len(s)))

\* WHITESPACE_COLLAPSE_REGEX.replace_all(s, " "): each run of spaces and
\* tabs becomes one space.
RECURSIVE CollapseWhitespace(_)
CollapseWhitespace(s) ==
    IF s = <<>> THEN <<>>
    ELSE IF Head(s) \in {32, 9}
    THEN LET others == { i \in 1..Len(s) : s[i] \notin {32, 9} }
             next == IF others = {} THEN Len(s) + 1
                     ELSE CHOOSE i \in others : \A j \in others : i <= j
         IN  <<32>> \o CollapseWhitespace(SubSeq(s, next, Len(s)))
    ELSE <<Head(s)>> \o CollapseWhitespace(Tail(s))

\* [String]::join("\n")
RECURSIVE JoinLines(_)
JoinLines(lines) ==
    IF lines = <<>> THEN <<>>
    ELSE IF Len(lines) = 1 THEN lines[1]
    ELSE lines[1] \o <<10>> \o JoinLines(Tail(lines))

\* The output of the character loop of normalize_line.
StripPunctuation(text) == CharLoop(NormalizeLineEndings(text), 1)

\* The whitespace step of normalize_line.
CollapseAndTrim(preserve_line_breaks, result) ==
    IF preserve_line_breaks
    THEN LET lines == StrLines(result)
         IN  JoinLines([k \in 1..Len(lines) |->
                           TrimStr(CollapseWhitespace(lines[k]))])
    ELSE TrimStr(CollapseWhitespace(result))

\* TextNormalizer::normalize_line
normalize_line(preserve_line_breaks, text) ==
    CollapseAndTrim(preserve_line_breaks, StripPunctuation(text))

\* Inputs of the normalizer model: every text of up to MaxTextLen
\* characters over a letter, a digit, the blanks and line ends, the four
\* apostrophe characters and a hyphen, and the punctuation one by one.
MaxTextLen == 4

\* a 1 SP TAB LF CR ' U+2018 U+2019 ` -
NormChars == {97, 49, 32, 9, 10, 13, 39, 8216, 8217, 96, 45}

\* The characters of PUNCTUATION_CHARS and the typographic quotation marks
\* U+2018, U+2019, U+201C, U+201D.
QuoteChars == PUNCTUATION_CHARS \cup {8216, 8217, 8220, 8221}

\* Characters on the two sides of an apostrophe: the letters a, A with
\* macron (U+0100), capital omega (U+03A9) and Cyrillic ya (U+044F), the
\* Syriac superscript alaph (U+0711), a mark that is alphabetic, and the
\* Arabic-Indic digit five (U+0665), which is no letter.
SideChars == {97, 256, 937, 1103, 1809, 1637}

\* Every text over NormChars, every character of QuoteChars alone and
\* between two letters, and an apostrophe between two of SideChars.
NormTexts ==
    UNION { [1..n -> NormChars] : n \in 0..MaxTextLen }
    \cup { <<c>> : c \in QuoteChars }
    \cup { <<97, c, 97>> : c \in QuoteChars }
    \cup { <<l, 39, r>> : l, r \in SideChars }

NormInit ==
    /\ DetectIdle
    /\ TextIdle
    /\ PptIdle
    /\ LastIdle
    /\ UnicodeIdle
    /\ SlideIdle
    /\ ManifestIdle
    /\ ShapesIdle
    /\ nText \in NormTexts
    /\ nPreserve \in BOOLEAN
    /\ nPc = "start"
    /\ nStage = <<>>
    /\ nOut = <<>>
    /\ nOut2 = <<>>

\* normalize_line(text)
NormalizeLine ==
    /\ nPc = "start"
    /\ nPc' = "once"
    /\ nStage' = StripPunctuation(nText)
    /\ nOut' = normalize_line(nPreserve, nText)
    /\ UNCHANGED <<nText, nPreserve, nOut2>>
    /\ UNCHANGED <<detectVars, textVars, pptVars, unicodeVars, slideVars, pptxVars,
                   lastVars>>

\* normalize_line on the text the first call returned
NormalizeAgain ==
    /\ nPc = "once"
    /\ nPc' = "twice"
    /\ nOut2' = normalize_line(nPreserve, nOut)
    /\ UNCHANGED <<nText, nPreserve, nStage, nOut>>
    /\ UNCHANGED <<detectVars, textVars, pptVars, unicodeVars, slideVars, pptxVars,
                   lastVars>>

NormNext ==
    \/ NormalizeLine
    \/ NormalizeAgain

SpecNorm == NormInit /\ [][NormNext]_vars

-----------------------------------------------------------------------------
(* Title matching: crates/core/src/normalize.rs.  A score (f64) is kept as *)
(* the fraction [num, den] whose quotient it is.                           *)

\* str::split_whitespace: the maximal pieces without whitespace, in order.
RECURSIVE SplitWhitespace(_)
SplitWhitespace(s) ==
    LET blacks == { i \in 1..Len(s) : ~IsWhitespace(s[i]) }
    IN  IF blacks = {} THEN <<>>
        ELSE LET from == CHOOSE i \in blacks : \A j \in blacks : i <= j
                 whites == { i \in from..Len(s) : IsWhitespace(s[i]) }
                 to == IF whites = {} THEN Len(s) + 1
                       ELSE CHOOSE i \in whites : \A j \in whites : i <= j
             IN  <<SubSeq(s, from, to - 1)>>
                 \o SplitWhitespace(SubSeq(s, to, Len(s)))

\* a.split_whitespace().collect::<HashSet<_>>()
WordSet(s) == { SplitWhitespace(s)[i] : i \in 1..Len(SplitWhitespace(s)) }

Min(a, b) == IF a <= b THEN a ELSE b
Max(a, b) == IF a >= b THEN a ELSE b

\* A variant of calculate_similarity without the containment rule.
calculate_similarity_words_only(a, b) ==
    IF a = <<>> \/ b = <<>> THEN [num |-> 0, den |-> 1]
    ELSE IF a = b THEN [num |-> 1, den |-> 1]
    ELSE LET words_a == WordSet(a)
             words_b == WordSet(b)
         IN  IF words_a = {} \/ words_b = {} THEN [num |-> 0, den |-> 1]
             ELSE [num |-> Cardinality(words_a \cap words_b),
                   den |-> Cardinality(words_a \cup words_b)]

\* calculate_similarity(a, b)
calculate_similarity(a, b) ==
    IF a = <<>> \/ b = <<>> THEN [num |-> 0, den |-> 1]
    ELSE IF a = b THEN [num |-> 1, den |-> 1]
    ELSE IF Contains(a, b) \/ Contains(b, a)
    THEN [num |-> Min(StrLen(a), StrLen(b)), den |-> Max(StrLen(a), StrLen(b))]
    ELSE LET words_a == WordSet(a)
             words_b == WordSet(b)
         IN  IF words_a = {} \/ words_b = {} THEN [num |-> 0, den |-> 1]
             ELSE [num |-> Cardinality(words_a \cap words_b),
                   den |-> Cardinality(words_a \cup words_b)]

\* Inputs of the similarity model: the strings normalize_for_comparison can
\* return over two letters, up to MaxSimLen characters: words separated by
\* single spaces.
MaxSimLen == 5

SimChars == {97, 98, 32}   \* a b SP

ComparisonStrings ==
    { s \in UNION { [1..n -> SimChars] : n \in 0..MaxSimLen } :
        /\ s # <<>> => (s[1] # 32 /\ s[Len(s)] # 32)
        /\ \A i \in 1..(Len(s) - 1) : ~(s[i] = 32 /\ s[i + 1] = 32) }

SimInit ==
    /\ DetectIdle
    /\ TextIdle
    /\ PptIdle
    /\ LaterIdle
    /\ TitleIdle
    /\ FmtIdle
    /\ XmlIdle
    /\ mA \in ComparisonStrings
    /\ mB \in ComparisonStrings
    /\ mPc = "start"
    /\ mSim = <<>>

\* calculate_similarity(a, b)
CalculateSimilarity ==
    /\ mPc = "start"
    /\ mPc' = "done"
    /\ mSim' = calculate_similarity(mA, mB)
    /\ UNCHANGED <<mA, mB>>
    /\ UNCHANGED <<detectVars, textVars, pptVars, laterVars, titleVars, fmtVars,
                   xmlVars>>

SimNext ==
    \/ CalculateSimilarity

SpecSim == SimInit /\ [][SimNext]_vars

-----------------------------------------------------------------------------
(* Title detection: crates/core/src/normalize.rs                           *)

\* words.join(" ")
RECURSIVE JoinWords(_)
JoinWords(words) ==
    IF words = <<>> THEN <<>>
    ELSE IF Len(words) = 1 THEN words[1]
    ELSE words[1] \o <<32>> \o JoinWords(Tail(words))

\* normalize_for_comparison(text)
normalize_for_comparison(text) ==
    LET kept == SelectSeq(text, LAMBDA c : IsAlphanumeric(c) \/ IsWhitespace(c))
    IN  JoinWords(SplitWhitespace(ToLowerStr(kept)))

\* The labels of FILENAME_SUFFIX_REGEX, in lower case.
SuffixLabels ==
    { <<108, 121, 114, 105, 99>>,                              \* lyric
      <<108, 121, 114, 105, 99, 115>>,                         \* lyrics
      <<115, 108, 105, 100, 101>>,                             \* slide
      <<115, 108, 105, 100, 101, 115>>,                        \* slides
      <<115, 108, 105, 100, 101, 115, 104, 111, 119>>,         \* slideshow
      <<112, 114, 101, 115, 101, 110, 116, 97, 116, 105, 111, 110>>,
                                                               \* presentation
      <<112, 112, 116>>,                                       \* ppt
      <<112, 112, 116, 120>>,                                  \* pptx
      <<119, 111, 114, 115, 104, 105, 112>>,                   \* worship
      <<115, 111, 110, 103>> }                                 \* song

\* The (?i) flag of FILENAME_SUFFIX_REGEX: a character matches a letter of
\* a label when the two are equal under Unicode simple case folding. The
\* labels are ASCII letters, whose classes are the two cases of the letter
\* and, for s and k, the long s (U+017F) and the Kelvin sign (U+212A).
SimpleCaseFold(c) ==
    IF c >= 65 /\ c <= 90 THEN c + 32
    ELSE IF c = 383 THEN 115
    ELSE IF c = 8490 THEN 107
    ELSE c

\* The start of the whitespace that ends just before position i of s.
WhitespaceStart(s, i) ==
    LET blacks == { k \in 1..(i - 1) : ~IsWhitespace(s[k]) }
    IN  IF blacks = {} THEN 1
        ELSE (CHOOSE k \in blacks : \A j \in blacks : j <= k) + 1

\* FILENAME_SUFFIX_REGEX.replace_all(name, ""): the pattern
\* (?i)\s*[-_]?\s*(label)\s*$ is anchored at the end of the text, so its
\* one match is the label that ends at the last character before the
\* trailing whitespace, with the whitespace and the one dash or underscore
\* before it.
RemoveSuffix(name) ==
    LET last == WhitespaceStart(name, Len(name) + 1) - 1
        labels == { l \in SuffixLabels :
                      /\ Len(l) <= last
                      /\ \A k \in 1..Len(l) :
                            SimpleCaseFold(name[last - Len(l) + k]) = l[k] }
    IN  IF labels = {} THEN name
        ELSE LET label == CHOOSE l \in labels : TRUE
                 first == WhitespaceStart(name, last - Len(label) + 1)
                 start == IF first > 1 /\ name[first - 1] \in {45, 95}
                          THEN WhitespaceStart(name, first - 1)
                          ELSE first
             IN  SubSeq(name, 1, start - 1)

\* extract_song_name_from_filename(filename)
extract_song_name_from_filename(filename) ==
    LET name == IF LastDot(filename) = 0 THEN filename
                ELSE SubSeq(filename, 1, LastDot(filename) - 1)
    IN  normalize_for_comparison(RemoveSuffix(name))

\* is_likely_title(text, normalized_filename)
is_likely_title(text, normalized_filename) ==
    LET normalized_text == normalize_for_comparison(text)
        similarity == calculate_similarity(normalized_text, normalized_filename)
    IN  IF StrLen(normalized_text) < 2 THEN FALSE
        ELSE IF StrLen(normalized_text) > 60 THEN FALSE
        ELSE similarity.num * 10 >= 7 * similarity.den

\* TextNormalizer::normalize_to_lines(text)
normalize_to_lines(preserve, text) ==
    LET lines == StrLines(normalize_line(preserve, text))
        trimmed == [i \in 1..Len(lines) |-> TrimStr(lines[i])]
    IN  SelectSeq(trimmed, LAMBDA l : l # <<>>)

\* The lines of the runs in order: all_lines.extend(normalize_to_lines(..))
RECURSIVE RunLines(_, _)
RunLines(preserve, runs) ==
    IF runs = <<>> THEN <<>>
    ELSE normalize_to_lines(preserve, Head(runs)) \o RunLines(preserve, Tail(runs))

\* TextNormalizer::normalize_presentation(slides); a slide is the sequence
\* of the texts of its lines.
RECURSIVE normalize_presentation(_, _)
normalize_presentation(preserve, slides) ==
    IF slides = <<>> THEN <<>>
    ELSE RunLines(preserve, Head(slides))
         \o normalize_presentation(preserve, Tail(slides))

\* The title scan over the first slide: the index (from 0) of the first
\* line that is_likely_title accepts, as title_text_indices.
RECURSIVE TitleScan(_, _, _)
TitleScan(lines, idx, normalized_filename) ==
    IF idx >= Len(lines) THEN <<>>
    ELSE IF is_likely_title(TrimStr(lines[idx + 1]), normalized_filename)
    THEN <<idx>>
    ELSE TitleScan(lines, idx + 1, normalized_filename)

\* A variant of the skip test that ignores which slide the line is on.
SkipsLineOnEverySlide(slide_idx, text_idx, title_text_indices) ==
    \E k \in 1..Len(title_text_indices) : title_text_indices[k] = text_idx

\* slide_idx == 0 && title_text_indices.contains(&text_idx)
SkipsLine(slide_idx, text_idx, title_text_indices) ==
    /\ slide_idx = 0
    /\ \E k \in 1..Len(title_text_indices) : title_text_indices[k] = text_idx

\* The collecting loops of normalize_presentation_with_title.
RECURSIVE CollectLines(_, _, _, _, _)
CollectLines(preserve, slides, slide_idx, text_idx, title_text_indices) ==
    IF slide_idx >= Len(slides) THEN <<>>
    ELSE IF text_idx >= Len(slides[slide_idx + 1])
    THEN CollectLines(preserve, slides, slide_idx + 1, 0, title_text_indices)
    ELSE (IF SkipsLine(slide_idx, text_idx, title_text_indices) THEN <<>>
          ELSE normalize_to_lines(preserve, slides[slide_idx + 1][text_idx + 1]))
         \o CollectLines(preserve, slides, slide_idx, text_idx + 1,
                         title_text_indices)

\* TextNormalizer::normalize_presentation_with_title(slides, filename)
normalize_presentation_with_title(preserve, slides, filename) ==
    LET normalized_filename == extract_song_name_from_filename(filename)
        title_text_indices ==
            IF slides = <<>> THEN <<>>
            ELSE TitleScan(slides[1], 0, normalized_filename)
        detected_title ==
            IF title_text_indices = <<>> THEN None
            ELSE Some(normalize_line(preserve,
                          TrimStr(slides[1][title_text_indices[1] + 1])))
    IN  [title |-> detected_title,
         indices |-> title_text_indices,
         lines |-> CollectLines(preserve, slides, 0, 0, title_text_indices)]

\* Inputs of the title model: no slide, or a first slide of up to
\* MaxTitleRuns lines followed by up to MaxTitleSlides - 1 slides of one
\* line each, and a filename.
MaxTitleSlides == 2
MaxTitleRuns == 2

\* Thirty times e with acute accent: 60 bytes of UTF-8; and with an "a"
\* after them: 61 bytes.
StrLong60 == Repeat(233, 30)
StrLong61 == Repeat(233, 30) \o <<97>>

RunTexts ==
    { <<65, 98>>,            \* "Ab"
      <<97>>,                \* "a"
      <<233>>,               \* e with acute accent
      StrLong60,
      StrLong61,
      <<99, 10, 100>>,       \* "c", line feed, "d"
      <<33>>,                \* "!"
      <<937, 97, 98>> }      \* capital omega, "ab"

Filenames ==
    { <<97, 98, 46, 112, 112, 116, 120>>,           \* "ab.pptx"
      <<65, 98, 32, 45, 32, 76, 121, 114, 105, 99, 115, 46, 112, 112, 116>>,
                                                    \* "Ab - Lyrics.ppt"
      <<97, 46, 112, 112, 116>>,                    \* "a.ppt"
      <<233, 46, 112, 112, 116, 120>>,              \* e-acute ".pptx"
      StrLong60 \o <<46, 112, 112, 116>>,
      <<383, 111, 110, 103>> }                      \* long s, "ong"

\* The lines of the slides after the first: "Ab", and "c", line feed, "d".
LaterTexts == { <<65, 98>>, <<99, 10, 100>> }

TitleSlides == UNION { [1..n -> RunTexts] : n \in 0..MaxTitleRuns }

TitleInit ==
    /\ DetectIdle
    /\ TextIdle
    /\ PptIdle
    /\ LaterIdle
    /\ SimIdle
    /\ FmtIdle
    /\ XmlIdle
    /\ \/ wSlides = <<>>
       \/ \E first \in TitleSlides : \E n \in 0..(MaxTitleSlides - 1) :
             \E later \in [1..n -> LaterTexts] :
                 wSlides = <<first>> \o [i \in 1..n |-> <<later[i]>>]
    /\ wFile \in Filenames
    /\ wPreserve \in BOOLEAN
    /\ wPc = "start"
    /\ wTitle = None
    /\ wIdx = <<>>
    /\ wLines = <<>>

\* TextNormalizer::normalize_presentation_with_title(slides, filename)
NormalizePresentationWithTitle ==
    /\ wPc = "start"
    /\ LET r == normalize_presentation_with_title(wPreserve, wSlides, wFile)
       IN  /\ wTitle' = r.title
           /\ wIdx' = r.indices
           /\ wLines' = r.lines
    /\ wPc' = "done"
    /\ UNCHANGED <<wSlides, wFile, wPreserve>>
    /\ UNCHANGED <<detectVars, textVars, pptVars, laterVars, simVars, fmtVars,
                   xmlVars>>

TitleNext ==
    \/ NormalizePresentationWithTitle

SpecTitle == TitleInit /\ [][TitleNext]_vars

-----------------------------------------------------------------------------
(* ProPresenter output: crates/core/src/propresenter.rs and the front end  *)
(* crates/worker-wasm/src/lib.rs (crates/desktop/src/commands.rs has the   *)
(* same function).  A usize of the formatter is kept as its signed         *)
(* reading: the value itself near 0, and the value minus 2^w near the top  *)
(* of the range, so that -1 is usize::MAX and -1 - k is usize::MAX - k.    *)
(* Wrapping + and - are then + and - on the readings.                      *)

\* a < b on two usize values
ULess(a, b) == IF (a < 0) = (b < 0) THEN a < b ELSE b < 0

\* A variant of with_lines_per_slide that stores the argument as it is.
with_lines_per_slide_unclamped(lines) == lines

\* ProPresenterFormatter::with_lines_per_slide: the stored lines_per_slide
with_lines_per_slide(lines) == IF ULess(lines, 1) THEN 1 ELSE lines

\* slice::chunks(chunk_size) for a chunk_size that is not 0
RECURSIVE Chunks(_, _)
Chunks(lines, chunk_size) ==
    IF lines = <<>> THEN <<>>
    ELSE IF ~ULess(chunk_size, Len(lines)) THEN <<lines>>
    ELSE <<SubSeq(lines, 1, chunk_size)>>
         \o Chunks(SubSeq(lines, chunk_size + 1, Len(lines)), chunk_size)

\* [String]::join(sep)
RECURSIVE JoinWith(_, _)
JoinWith(sep, parts) ==
    IF parts = <<>> THEN <<>>
    ELSE IF Len(parts) = 1 THEN parts[1]
    ELSE parts[1] \o sep \o JoinWith(sep, Tail(parts))

\* ProPresenterFormatter::format of a formatter built with
\* with_lines_per_slide(n); slice::chunks panics on a chunk size of 0.
format(n, lines) ==
    LET lines_per_slide == with_lines_per_slide(n)
    IN  IF lines = <<>> THEN [panic |-> FALSE, text |-> <<>>]
        ELSE IF lines_per_slide = 0 THEN [panic |-> TRUE, text |-> <<>>]
        ELSE LET chunks == Chunks(lines, lines_per_slide)
                 slides == [k \in 1..Len(chunks) |-> JoinWith(<<10>>, chunks[k])]
             IN  [panic |-> FALSE, text |-> JoinWith(<<10, 10>>, slides)]

\* format_for_propresenter_impl(lines, lines_per_slide, title) in a build
\* with or without overflow checks.  lines.len() + lines_per_slide - 1
\* leaves the range of usize for a lines_per_slide near usize::MAX: the
\* build with overflow checks panics, the other wraps.  The division
\* panics on a lines_per_slide of 0.
format_for_propresenter(overflow_checks, lines, lines_per_slide, title) ==
    LET lyrics == format(lines_per_slide, lines)
        lyrics_text == lyrics.text
        has_title == title # None /\ title[1] # <<>>
        text == IF has_title
                THEN IF lyrics_text = <<>> THEN title[1] \o <<10>>
                     ELSE title[1] \o <<10, 10>> \o lyrics_text \o <<10>>
                ELSE IF lyrics_text = <<>> THEN <<>>
                     ELSE lyrics_text \o <<10>>
        title_slide_count == IF has_title THEN 1 ELSE 0
        sum == Len(lines) + lines_per_slide
        add_overflows == lines_per_slide < 0 /\ sum >= 0
        sub_overflows == sum = 0
        numerator == sum - 1
        \* numerator / lines_per_slide: the numerator is small when the
        \* divisor is, and a divisor near usize::MAX goes once into a
        \* numerator that is not below it.
        quotient == IF lines_per_slide > 0 THEN numerator \div lines_per_slide
                    ELSE IF ULess(numerator, lines_per_slide) THEN 0 ELSE 1
        panicked == [panic |-> TRUE, text |-> <<>>, slide_count |-> 0]
    IN  IF lyrics.panic THEN panicked
        ELSE IF lines = <<>>
        THEN [panic |-> FALSE, text |-> text, slide_count |-> title_slide_count]
        ELSE IF overflow_checks /\ (add_overflows \/ sub_overflows) THEN panicked
        ELSE IF lines_per_slide = 0 THEN panicked
        ELSE [panic |-> FALSE, text |-> text,
              slide_count |-> title_slide_count + quotient]

\* Inputs of the formatter model: up to MaxFmtLines lines as normalization
\* returns them (not empty, without line ends), a lines_per_slide of 0 to
\* MaxPerSlide or of usize::MAX - MaxBelowTop to usize::MAX, and no title,
\* an empty title or a title.
MaxFmtLines == 4
MaxPerSlide == 3
MaxBelowTop == 1

FmtLineTexts == { <<97>>, <<98, 32, 99>> }   \* "a", "b c"

FmtTitles == { None, Some(<<>>), Some(<<84>>) }   \* none, "", "T"

FmtInit ==
    /\ DetectIdle
    /\ TextIdle
    /\ PptIdle
    /\ LaterIdle
    /\ SimIdle
    /\ TitleIdle
    /\ XmlIdle
    /\ fLines \in UNION { [1..n -> FmtLineTexts] : n \in 0..MaxFmtLines }
    /\ fN \in (0..MaxPerSlide) \cup { -1 - k : k \in 0..MaxBelowTop }
    /\ fChecks \in BOOLEAN
    /\ fTitle \in FmtTitles
    /\ fPc = "start"
    /\ fText = <<>>
    /\ fCount = 0

\* ProPresenterFormatter::new().with_lines_per_slide(n).format(lines)
Format ==
    /\ fPc = "start"
    /\ LET r == format(fN, fLines)
       IN  /\ fPc' = IF r.panic THEN "format_panicked" ELSE "formatted"
           /\ fText' = r.text
    /\ UNCHANGED <<fLines, fN, fChecks, fTitle, fCount>>
    /\ UNCHANGED <<detectVars, textVars, pptVars, laterVars, simVars, titleVars,
                   xmlVars>>

\* format_for_propresenter(lines, lines_per_slide, title)
FormatForPropresenter ==
    /\ fPc = "start"
    /\ LET r == format_for_propresenter(fChecks, fLines, fN, fTitle)
       IN  /\ fPc' = IF r.panic THEN "panicked" ELSE "returned"
           /\ fText' = r.text
           /\ fCount' = r.slide_count
    /\ UNCHANGED <<fLines, fN, fChecks, fTitle>>
    /\ UNCHANGED <<detectVars, textVars, pptVars, laterVars, simVars, titleVars,
                   xmlVars>>

FmtNext ==
    \/ Format
    \/ FormatForPropresenter

SpecFmt == FmtInit /\ [][FmtNext]_vars

-----------------------------------------------------------------------------
(* Shape extraction from the events of a slide's XML:                      *)
(* crates/pptx/src/parser.rs.  An event is what Reader::read_event         *)
(* returns, with the local name of its element: [kind, name, text, x, y]. *)

StartEvent(name) == [kind |-> "Start", name |-> name, text |-> <<>>, x |-> None, y |-> None]
EndEvent(name) == [kind |-> "End", name |-> name, text |-> <<>>, x |-> None, y |-> None]
TextEvent(text) == [kind |-> "Text", name |-> "", text |-> text, x |-> None, y |-> None]
EmptyOff(x, y) == [kind |-> "Empty", name |-> "off", text |-> <<>>, x |-> Some(x), y |-> Some(y)]

\* The variables of the loop of extract_shapes_from_xml before any event.
ReaderStart ==
    [current_shape |-> None, in_text_body |-> FALSE, in_paragraph |-> FALSE,
     current_text |-> <<>>, shapes |-> <<>>]

\* The `off` arms: the attributes set the position of the current shape.
SetOffset(st, e) ==
    IF st.current_shape = None THEN st
    ELSE LET shape == st.current_shape[1]
         IN  [st EXCEPT !.current_shape =
                 Some([shape EXCEPT !.x = IF e.x = None THEN @ ELSE e.x[1],
                                    !.y = IF e.y = None THEN @ ELSE e.y[1]])]

\* The End arm of `sp` and `pic`.
EndShape(st) ==
    LET text == TrimStr(st.current_text)
        saved == IF st.current_shape # None /\ text # <<>>
                 THEN <<[st.current_shape[1] EXCEPT !.text = text]>>
                 ELSE <<>>
    IN  [current_shape |-> None, in_text_body |-> FALSE, in_paragraph |-> FALSE,
         current_text |-> <<>>, shapes |-> st.shapes \o saved]

\* One turn of the loop of extract_shapes_from_xml on the event e.
ReadEvent(st, e) ==
    IF e.kind = "Start"
    THEN IF e.name \in {"sp", "pic"}
         THEN [st EXCEPT !.current_shape = Some([text |-> <<>>, x |-> 0, y |-> 0])]
         ELSE IF e.name = "off" THEN SetOffset(st, e)
         ELSE IF e.name = "txBody" THEN [st EXCEPT !.in_text_body = TRUE]
         ELSE IF e.name = "p" /\ st.in_text_body
         THEN [st EXCEPT !.in_paragraph = TRUE,
                         !.current_text = IF @ # <<>> THEN @ \o <<10>> ELSE @]
         ELSE st
    ELSE IF e.kind = "Empty"
    THEN IF e.name = "off" THEN SetOffset(st, e) ELSE st
    ELSE IF e.kind = "Text"
    THEN IF st.in_paragraph
         THEN [st EXCEPT !.current_text = @ \o e.text]
         ELSE st
    ELSE IF e.name \in {"sp", "pic"} THEN EndShape(st)
    ELSE IF e.name = "txBody" THEN [st EXCEPT !.in_text_body = FALSE]
    ELSE IF e.name = "p" THEN [st EXCEPT !.in_paragraph = FALSE]
    ELSE st

\* Inputs of the shape model: a shape tree of up to MaxXmlItems elements.
MaxXmlItems == 3

\* <a:p><a:r><a:t>text</a:t></a:r></a:p>, without the text event when the
\* text is empty
Paragraph(text) ==
    <<StartEvent("p"), StartEvent("r"), StartEvent("t")>>
    \o (IF text = <<>> THEN <<>> ELSE <<TextEvent(text)>>)
    \o <<EndEvent("t"), EndEvent("r"), EndEvent("p")>>

XmlItemKinds == {"text", "two", "empty", "pic", "cell", "placed"}

\* The events of one element of the shape tree; the k-th element's text is
\* the k-th capital letter.
XmlItem(kind, k) ==
    IF kind = "text"
    THEN <<StartEvent("sp"), StartEvent("txBody")>> \o Paragraph(<<64 + k>>)
         \o <<EndEvent("txBody"), EndEvent("sp")>>
    ELSE IF kind = "two"
    THEN <<StartEvent("sp"), StartEvent("txBody")>> \o Paragraph(<<64 + k>>)
         \o Paragraph(<<96 + k>>) \o <<EndEvent("txBody"), EndEvent("sp")>>
    ELSE IF kind = "empty"
    THEN <<StartEvent("sp"), StartEvent("txBody")>> \o Paragraph(<<>>)
         \o <<EndEvent("txBody"), EndEvent("sp")>>
    ELSE IF kind = "pic"
    THEN <<StartEvent("pic"), StartEvent("spPr"), StartEvent("xfrm"),
           EmptyOff(k, k), EndEvent("xfrm"), EndEvent("spPr"), EndEvent("pic")>>
    ELSE IF kind = "cell"
    THEN <<StartEvent("graphicFrame"), StartEvent("tbl"), StartEvent("tc"),
           StartEvent("txBody")>> \o Paragraph(<<64 + k>>)
         \o <<EndEvent("txBody"), EndEvent("tc"), EndEvent("tbl"),
              EndEvent("graphicFrame")>>
    ELSE <<StartEvent("sp"), StartEvent("spPr"), StartEvent("xfrm"),
           EmptyOff(10 * k, 20 * k), EndEvent("xfrm"), EndEvent("spPr"),
           StartEvent("txBody")>> \o Paragraph(<<64 + k>>)
         \o <<EndEvent("txBody"), EndEvent("sp")>>

RECURSIVE XmlItems(_, _)
XmlItems(kinds, k) ==
    IF k > Len(kinds) THEN <<>>
    ELSE XmlItem(kinds[k], k) \o XmlItems(kinds, k + 1)

SlideEvents(kinds) ==
    <<StartEvent("sld"), StartEvent("spTree")>> \o XmlItems(kinds, 1)
    \o <<EndEvent("spTree"), EndEvent("sld")>>

XmlInit ==
    /\ DetectIdle
    /\ TextIdle
    /\ PptIdle
    /\ LaterIdle
    /\ SimIdle
    /\ TitleIdle
    /\ FmtIdle
    /\ \E n \in 0..MaxXmlItems : \E kinds \in [1..n -> XmlItemKinds] :
          eXml = SlideEvents(kinds)
    /\ ePc = "reading"
    /\ ePos = 1
    /\ eState = ReaderStart
    /\ eShapes = <<>>

\* One turn of the loop of extract_shapes_from_xml: the next event is read.
ReadNextEvent ==
    /\ ePc = "reading"
    /\ ePos <= Len(eXml)
    /\ eState' = ReadEvent(eState, eXml[ePos])
    /\ ePos' = ePos + 1
    /\ UNCHANGED <<eXml, ePc, eShapes>>
    /\ UNCHANGED <<detectVars, textVars, pptVars, laterVars, simVars, titleVars,
                   fmtVars>>

\* Event::Eof: the loop ends and the shapes are returned.
ReadEof ==
    /\ ePc = "reading"
    /\ ePos > Len(eXml)
    /\ ePc' = "done"
    /\ eShapes' = eState.shapes
    /\ UNCHANGED <<eXml, ePos, eState>>
    /\ UNCHANGED <<detectVars, textVars, pptVars, laterVars, simVars, titleVars,
                   fmtVars>>

XmlNext ==
    \/ ReadNextEvent
    \/ ReadEof

SpecXml == XmlInit /\ [][XmlNext]_vars

-----------------------------------------------------------------------------
(* Properties of format detection, checked under SpecDetect                *)

FrontEnds == {"wasm", "cli", "desktop"}

\* The extension the front end that ran hands to from_extension.
FrontEndExt ==
    IF dPc = "wasm" THEN RsplitDotFirst(dName) ELSE PathExtension(dName)

\* a is b in some mix of upper and lower case (b in lower-case letters).
SameIgnoringCase(a, b) ==
    /\ Len(a) = Len(b)
    /\ \A i \in 1..Len(b) : a[i] = b[i] \/ a[i] = b[i] - 32

\* What a case-insensitive match of an optional extension yields.
ExtFormat(ext) ==
    IF ext # None /\ SameIgnoringCase(ext[1], StrPptx) THEN "Pptx"
    ELSE IF ext # None /\ SameIgnoringCase(ext[1], StrPpt) THEN "Ppt"
    ELSE "CouldNotDetect"

\* C1: detection gives priority to the magic bytes.  from_magic classifies
\* every buffer that starts with 50 4B 03 04 as Pptx and every buffer of at
\* least 8 bytes that starts with D0 CF 11 E0 A1 B1 1A E1 as Ppt; a front end
\* that gets as far as detection returns that format whatever the file
\* name's extension is, and asks the extension only when from_magic found no
\* signature.
C1_MagicPriority ==
    /\ dPc = "from_magic" =>
         /\ StartsWith(dData, ZipSig) => dResult = "Pptx"
         /\ (Len(dData) >= 8 /\ StartsWith(dData, CfbSig)) => dResult = "Ppt"
    /\ (dPc \in FrontEnds /\ Len(dData) >= 8) =>
         /\ StartsWith(dData, ZipSig) => dResult = "Pptx"
         /\ StartsWith(dData, CfbSig) => dResult = "Ppt"
         /\ dExtAsked =>
              /\ dMagic = "None"
              /\ ~StartsWith(dData, ZipSig)
              /\ ~StartsWith(dData, CfbSig)

\* A Zip signature under a file name that ends in ".ppt", detected as Pptx.
C1_Witness ==
    /\ dPc = "wasm"
    /\ StartsWith(dData, ZipSig)
    /\ Len(dName) >= 4
    /\ SubSeq(dName, Len(dName) - 3, Len(dName)) = <<46>> \o StrPpt
    /\ dResult = "Pptx"

\* C2 as stated: whenever the magic bytes are inconclusive, inputs of fewer
\* than 8 bytes included, detection falls back to the case-insensitive
\* extension and fails as unrecognized only when the extension fails too.
C2_FallbackAlways ==
    (dPc \in FrontEnds /\ from_magic(dData) = "None") =>
        dResult = ExtFormat(FrontEndExt)

\* C2 as the code has it: the extension fallback applies to inputs of at
\* least 8 bytes without a signature (case-insensitive, "could not detect"
\* only when the extension matches neither format); an input of fewer than
\* 8 bytes is rejected before detection, with a too-small error (worker) or
\* a read error (cli, desktop), and its extension is never asked.
C2_FallbackFromEightBytes ==
    /\ (dPc \in FrontEnds /\ Len(dData) >= 8 /\ from_magic(dData) = "None") =>
         /\ dResult = ExtFormat(FrontEndExt)
         /\ dExtAsked <=> FrontEndExt # None
    /\ (dPc \in FrontEnds /\ Len(dData) < 8) =>
         /\ dResult = (IF dPc = "wasm" THEN "FileTooSmall" ELSE "ReadHeaderFailed")
         /\ ~dExtAsked
         /\ dMagic = "unset"

\* Eight bytes or more without a signature, named "….PPT": detected as Ppt.
C2_Witness ==
    /\ dPc = "cli"
    /\ Len(dData) >= 8
    /\ dMagic = "None"
    /\ dExtAsked
    /\ PathExtension(dName) = Some(<<80, 80, 84>>)
    /\ dResult = "Ppt"


-----------------------------------------------------------------------------
(* Properties of legacy validation and extraction, checked under SpecPpt   *)

\* validate_stream returned Ok (extraction may have started since).
Accepted ==
    \/ pPc \in {"validated", "parse", "done"}
    \/ pPc = "panicked" /\ pETrace # <<>>

\* validate_stream returned an error.
Rejected == pPc = "failed"

\* The pre-flight traversal saw a well-formed record of one of the types.
SawType(types) ==
    \E i \in 1..Len(pVTrace) :
        /\ ~pVTrace[i].malformed
        /\ ~pVTrace[i].panic
        /\ pVTrace[i].rec_type \in types

SawDocument == SawType({5000})
SawText == SawType({3999, 4000, 4008})

\* The number of records the pre-flight traversal found malformed.
MalformedSeen == Cardinality({i \in 1..Len(pVTrace) : pVTrace[i].malformed})

\* The number of well-formed text-run records in a trace.
TextRunsIn(trace) ==
    Cardinality({i \in 1..Len(trace) :
                    /\ ~trace[i].malformed
                    /\ ~trace[i].panic
                    /\ trace[i].rec_type \in {4000, 4008}})

IsPrefix(a, b) == Len(a) <= Len(b) /\ SubSeq(b, 1, Len(a)) = a

\* C3: a stream shorter than 512 bytes fails validation with the
\* corrupted-file kind and no other, whatever records it holds, and neither
\* pass reads a record of it.
C3_ShortStreamCorrupted ==
    (pPc \notin {"open", "no_stream", "start"} /\ Len(pData) < 512) =>
        /\ pPc = "failed"
        /\ pResult = "CorruptedFile"
        /\ pVTrace = <<>>
        /\ pETrace = <<>>
        /\ pVal = DefaultValidation

\* A 511-byte stream that opens with a Document container, rejected.
C3_Witness ==
    /\ pPc = "failed"
    /\ Len(pData) = 511
    /\ read_u16_le(pData, 2) = RT_DOCUMENT
    /\ read_u16_le(pData, 10) = RT_TEXT_HEADER_ATOM
    /\ pResult = "CorruptedFile"

\* C4: validate_stream accepts a stream exactly when the stream has at
\* least 512 bytes, the pre-flight traversal saw a Document record, it saw a
\* Text-Header or a text-run record, and it counted at most 10 malformed
\* records; a stream of at least 512 bytes without a Document record, or
\* without any Text-Header or text-run record, is rejected as
\* unsupported-format.
C4_AcceptIffFourConditions ==
    (Accepted \/ Rejected) =>
        /\ Accepted <=> /\ Len(pData) >= 512
                        /\ SawDocument
                        /\ SawText
                        /\ MalformedSeen <= 10
        /\ (Rejected /\ Len(pData) >= 512 /\ (~SawDocument \/ ~SawText)) =>
               pResult = "UnsupportedFormat"

\* Accepted on a Document record and a Text-Header alone, with a malformed
\* record in the stream and no text run.
C4_Witness ==
    /\ pPc = "validated"
    /\ SawDocument
    /\ SawType({3999})
    /\ ~SawType({4000, 4008})
    /\ MalformedSeen = 1

\* C5 as stated: more than 10 malformed records in a stream of at least 512
\* bytes mean rejection as corrupted-file whatever else the stream holds;
\* 10 or fewer never cause rejection by themselves.
C5_ElevenAlwaysCorrupted ==
    /\ ((Accepted \/ Rejected) /\ Len(pData) >= 512 /\ MalformedSeen > 10) =>
           (Rejected /\ pResult = "CorruptedFile")
    /\ ((Accepted \/ Rejected) /\ Len(pData) >= 512 /\ MalformedSeen <= 10
            /\ SawDocument /\ SawText) => Accepted

\* C5 as the code has it: more than 10 malformed records always mean
\* rejection, as corrupted-file when the traversal also saw a Document
\* record and a Text-Header or text-run record, and as unsupported-format
\* when one of those is missing (those checks come first); 10 or fewer
\* never cause rejection by themselves.
C5_ElevenRejected ==
    /\ ((Accepted \/ Rejected) /\ Len(pData) >= 512 /\ MalformedSeen > 10) =>
           /\ Rejected
           /\ pResult = (IF SawDocument /\ SawText THEN "CorruptedFile"
                         ELSE "UnsupportedFormat")
    /\ ((Accepted \/ Rejected) /\ Len(pData) >= 512 /\ MalformedSeen <= 10
            /\ SawDocument /\ SawText) => Accepted

\* Eleven malformed records after a Document record and text records.
C5_Witness ==
    /\ Rejected
    /\ Len(pData) >= 512
    /\ MalformedSeen = 11
    /\ SawDocument
    /\ SawText
    /\ pResult = "CorruptedFile"


\* The stream of the parser's own validation test: a Document header, a
\* Text-Header of type Body and a Text-Bytes run "Test" in a zeroed buffer.
SampleStream ==
    ZeroPadTo(Header(15, 5000, ToU32(100)) \o Header(0, 3999, ToU32(4))
              \o <<1, 0, 0, 0>> \o Header(0, 4008, ToU32(4)) \o StrTest, 512)

\* C6: the extraction pass reads the records the validation pass read, in
\* the same order and with the same decoded headers (at every moment what
\* extraction has read is a prefix of what validation read, and a finished
\* extraction has read all of it); so text_record_count is the number of
\* text-run records extraction reached and is at least the number of text
\* entries; the tally's malformed_records is the number of records that
\* overran their scope, 0 when every record fit; and the sample stream
\* validates with the documented tally.
C6_SameTraversal ==
    /\ IsPrefix(pETrace, pVTrace)
    /\ pPc = "done" =>
         /\ pETrace = pVTrace
         /\ pVal.text_record_count = TextRunsIn(pETrace)
         /\ pVal.text_record_count = Len(pSeen)
         /\ Len(pEntries) <= pVal.text_record_count
    /\ (Accepted \/ (Rejected /\ Len(pData) >= 512)) =>
         /\ pVal.malformed_records = MalformedSeen
         /\ (\A i \in 1..Len(pVTrace) : ~pVTrace[i].malformed) =>
                pVal.malformed_records = 0
    /\ (Accepted /\ pData = SampleStream) =>
         /\ pVal.has_document
         /\ pVal.has_text_headers
         /\ pVal.has_text_content
         /\ pVal.text_record_count = 1
         /\ pVal.malformed_records = 0

\* A finished extraction of a stream with a container, a malformed record
\* and a text run that became an entry.
C6_Witness ==
    /\ pPc = "done"
    /\ \E i \in 1..Len(pETrace) : pETrace[i].rec_ver = 15 /\ ~pETrace[i].malformed
    /\ \E i \in 1..Len(pETrace) : pETrace[i].malformed
    /\ pVal.text_record_count >= 1
    /\ Len(pEntries) >= 1

\* The purpose a Text-Header code stands for.
PurposeOfCode(code) ==
    IF code.hi = 0 /\ code.lo = 0 THEN "Title"
    ELSE IF code.hi = 0 /\ code.lo = 1 THEN "Body"
    ELSE IF code.hi = 0 /\ code.lo = 2 THEN "Notes"
    ELSE IF code.hi = 0 /\ code.lo = 3 THEN "NotUsed"
    ELSE IF code.hi = 0 /\ code.lo = 5 THEN "CenterBody"
    ELSE IF code.hi = 0 /\ code.lo = 6 THEN "CenterTitle"
    ELSE IF code.hi = 0 /\ code.lo = 7 THEN "HalfBody"
    ELSE IF code.hi = 0 /\ code.lo = 8 THEN "QuarterBody"
    ELSE "Other"

\* The purpose in force at the idx-th record the extraction pass read: that
\* of the last Text-Header before it that holds a code, Body when none.
PurposeAt(idx) ==
    LET hdrs == {j \in 1..(idx - 1) :
                    /\ pETrace[j].rec_type = 3999
                    /\ ~pETrace[j].malformed
                    /\ U32AtLeast(pETrace[j].rec_len, 4)}
    IN  IF hdrs = {} THEN "Body"
        ELSE LET j == CHOOSE k \in hdrs : \A m \in hdrs : m <= k
             IN  PurposeOfCode(read_u32_le(pData, pETrace[j].content_start))

\* The text runs extraction kept, in the order it met them.
KeptRuns == SelectSeq(pSeen, LAMBDA r : r.kept)

\* The lines of all slides, in slide order.
RECURSIVE LinesOf(_)
LinesOf(slides) ==
    IF slides = <<>> THEN <<>>
    ELSE Head(slides).lines \o LinesOf(Tail(slides))

\* C7: a text run decoded while the purpose in force is Notes or Unused is
\* never kept and so is in no slide; under every other purpose (unknown
\* codes above 8 count as Other) a run is kept exactly when its text passes
\* the content filters, which do not look at the purpose; the entries are
\* the kept runs, and the lines of the returned slides are the entries'
\* texts.
C7_NotesAndUnusedExcluded ==
    /\ \A i \in 1..Len(pSeen) :
         LET r == pSeen[i]
         IN  /\ r.text_type = PurposeAt(r.idx)
             /\ r.text_type \in {"Notes", "NotUsed"} => ~r.kept
             /\ (r.text_type \notin {"Notes", "NotUsed"} /\ r.text # None) =>
                    (r.kept <=> is_valid_slide_text(r.text[1], "Body"))
    /\ pPc \in {"parse", "done"} =>
         /\ Len(pEntries) = Len(KeptRuns)
         /\ \A i \in 1..Len(pEntries) :
              /\ pEntries[i].text = KeptRuns[i].text[1]
              /\ pEntries[i].text_type = KeptRuns[i].text_type
              /\ pEntries[i].text_type \notin {"Notes", "NotUsed"}
    /\ pPc = "done" =>
         /\ Len(LinesOf(pSlides)) = Len(pEntries)
         /\ \A k \in 1..Len(LinesOf(pSlides)) :
              \E i \in 1..Len(pEntries) :
                  LinesOf(pSlides)[k].text = pEntries[i].text

\* A finished extraction that met a run under Notes, dropped it, and
\* returned a slide made of another run.
C7_Witness ==
    /\ pPc = "done"
    /\ \E i \in 1..Len(pSeen) :
         /\ pSeen[i].text_type = "Notes"
         /\ pSeen[i].text # None
         /\ ~pSeen[i].kept
    /\ pSlides # <<>>


-----------------------------------------------------------------------------
(* Properties of text decoding and filtering, checked under SpecText       *)

\* The purpose in force lets text through.
EligiblePurpose == PurposeOfCode(tCode) \notin {"Notes", "NotUsed"}

\* The text holds one of the eight placeholder phrases in some mix of upper
\* and lower case.
HoldsPhraseIgnoringCase(text) ==
    \E ph \in Phrases : Contains(ToLowerStr(text), ToLowerStr(ph))

\* C8: a text run that holds one of the eight template-placeholder phrases
\* as a substring, compared without regard to case, is discarded.
C8_PhrasesAnyCase ==
    (tPc = "filtered" /\ HoldsPhraseIgnoringCase(tText[1])) => tKept = FALSE

\* The run "SECOND LEVEL" under an eligible purpose, kept.
C8_Witness ==
    /\ tPc = "filtered"
    /\ tText = Some(ToUpperStr(<<83, 101, 99, 111, 110, 100, 32, 108, 101, 118, 101, 108>>))
    /\ EligiblePurpose
    /\ tKept = TRUE

\* C9: a run that after trimming is exactly one character is discarded when
\* that character is not alphanumeric, bullet glyphs outside ASCII
\* included, and kept (under an eligible purpose) when it is alphanumeric.
C9_SingleCharacter ==
    (tPc = "filtered" /\ Len(TrimStr(tText[1])) = 1) =>
        IF IsAlphanumeric(TrimStr(tText[1])[1])
        THEN EligiblePurpose => tKept = TRUE
        ELSE tKept = FALSE

\* The byte 0x95 alone decodes to the bullet U+2022 and is kept.
C9_Witness ==
    /\ tPc = "filtered"
    /\ tBytes = <<149>>
    /\ tText = Some(<<8226>>)
    /\ EligiblePurpose
    /\ tKept = TRUE

\* The substitution table of 0x80..0x9F, entry b - 127 for byte b; 0 marks
\* the five bytes that Windows-1252 leaves undefined.
SubstitutionTable ==
    << 8364, 0, 8218, 402, 8222, 8230, 8224, 8225,
       710, 8240, 352, 8249, 338, 0, 381, 0,
       0, 8216, 8217, 8220, 8221, 8226, 8211, 8212,
       732, 8482, 353, 8250, 339, 0, 382, 376 >>

UnmappedBytes == {129, 141, 143, 144, 157}   \* 0x81 0x8D 0x8F 0x90 0x9D

\* The bytes before the first null byte.
RECURSIVE UpToNull(_)
UpToNull(bytes) ==
    IF bytes = <<>> \/ Head(bytes) = 0 THEN <<>>
    ELSE <<Head(bytes)>> \o UpToNull(Tail(bytes))

\* The character of a byte that has one.
CharOfByte(b) ==
    IF b <= 127 \/ b >= 160 THEN b ELSE SubstitutionTable[b - 127]

\* Decoding with the unmapped bytes dropped.
RECURSIVE DecodeDropping(_)
DecodeDropping(bytes) ==
    IF bytes = <<>> THEN <<>>
    ELSE (IF Head(bytes) \in UnmappedBytes THEN <<>>
          ELSE <<CharOfByte(Head(bytes))>>) \o DecodeDropping(Tail(bytes))

\* Decoding with each unmapped byte replaced by '?'.
DecodeReplacing(bytes) ==
    [i \in 1..Len(bytes) |->
        IF bytes[i] \in UnmappedBytes THEN 63 ELSE CharOfByte(bytes[i])]

\* C10 as stated: 0x00-0x7F decode to themselves, 0xA0-0xFF to the same
\* code point, the 27 defined bytes of 0x80-0x9F through the table, the
\* five unmapped bytes contribute no character, and decoding stops at the
\* first null byte.
C10_UnmappedDropped ==
    (tPc # "start" /\ tText # None) =>
        tText[1] = DecodeDropping(UpToNull(tBytes))

\* C10 as the code has it: the same, except that each of the five unmapped
\* bytes becomes the one character '?' (U+003F); a run whose decoded text is
\* empty or all white space yields no text.
C10_UnmappedReplaced ==
    tPc # "start" =>
        /\ tText # None => tText[1] = DecodeReplacing(UpToNull(tBytes))
        /\ tText = None <=> TrimStr(DecodeReplacing(UpToNull(tBytes))) = <<>>
        /\ Cardinality({b \in 128..159 : SubstitutionTable[b - 127] # 0}) = 27

\* "A", the unmapped byte 0x81 and "B" decode to the three characters "A?B".
C10_Witness ==
    /\ tPc = "decoded"
    /\ tBytes = <<65, 129, 66>>
    /\ tText = Some(<<65, 63, 66>>)

-----------------------------------------------------------------------------
(* Properties of Unicode text runs (SpecUnicode)                           *)

UnitsOf(bytes) ==
    [i \in 1..(Len(bytes) \div 2) |-> bytes[2 * i - 1] + 256 * bytes[2 * i]]

\* The code units before the first null unit.
UnitsUpToNull(units) ==
    IF \E i \in 1..Len(units) : units[i] = 0
    THEN Take(units, (CHOOSE i \in 1..Len(units) :
                         units[i] = 0 /\ \A j \in 1..(i - 1) : units[j] # 0) - 1)
    ELSE units

IsHighSurrogate(u) == u >= 55296 /\ u <= 56319
IsLowSurrogate(u) == u >= 56320 /\ u <= 57343

\* No surrogate of the units stands without its partner.
WellPaired(units) ==
    \A i \in 1..Len(units) :
        /\ IsHighSurrogate(units[i]) =>
              i < Len(units) /\ IsLowSurrogate(units[i + 1])
        /\ IsLowSurrogate(units[i]) =>
              i > 1 /\ IsHighSurrogate(units[i - 1])

RECURSIVE DecodePaired(_)
DecodePaired(units) ==
    IF units = <<>> THEN <<>>
    ELSE IF IsHighSurrogate(Head(units))
    THEN <<65536 + (units[1] - 55296) * 1024 + (units[2] - 56320)>>
         \o DecodePaired(Tail(Tail(units)))
    ELSE <<Head(units)>> \o DecodePaired(Tail(units))

\* The run as the statement describes it: nothing for an odd length, an
\* empty run or an unpaired surrogate before the first null, and otherwise
\* the text before the first null.
WholeRunOrNothing(bytes) ==
    LET units == UnitsUpToNull(UnitsOf(bytes))
    IN  IF Len(bytes) % 2 # 0 \/ units = <<>> \/ ~WellPaired(units)
        THEN None
        ELSE Some(DecodePaired(units))

\* C11 (as stated): a Unicode run is decoded as 16-bit little-endian code
\* units and cut at the first null unit; a run that cannot be decoded (an
\* unpaired surrogate before any null), has an odd byte length or is empty
\* after the cut is discarded as a whole and never contributes a partial
\* prefix.
C11_WholeRunOrNothing ==
    uPc \in {"decoded", "filtered"} => uText = WholeRunOrNothing(uBytes)

\* "Hi" followed by a lone high surrogate: the run cannot be decoded, and
\* its prefix "Hi" is returned and kept as slide text.
C11_Witness ==
    /\ uPc = "filtered"
    /\ uBytes = <<72, 0, 105, 0, 0, 216>>
    /\ uText = Some(<<72, 105>>)
    /\ uKept = TRUE

-----------------------------------------------------------------------------
(* Properties of slide assembly, checked under SpecAssembly                *)

RECURSIVE Flatten(_)
Flatten(groups) ==
    IF groups = <<>> THEN <<>> ELSE Head(groups) \o Flatten(Tail(groups))

LineTexts(slide) == [k \in 1..Len(slide.lines) |-> slide.lines[k].text]

\* The slides whose lines hold the text of an entry.
SlidesWith(entry) ==
    { k \in 1..Len(sSlides) :
        \E l \in 1..Len(sSlides[k].lines) : sSlides[k].lines[l].text = entry.text }

\* C12: the grouping by persistence count cuts the entries, in traversal
\* order, into maximal runs of consecutive entries of equal count: the
\* groups are the list cut in pieces, each piece holds one count, and the
\* count changes from each piece to the next; when this gives more than
\* one group, two entries are on the same slide exactly if their counts
\* are equal.
C12_MaximalRuns ==
    (sPc = "done" /\ sEntries # <<>>) =>
        /\ Flatten(sByHint) = sEntries
        /\ \A g \in 1..Len(sByHint) :
              /\ sByHint[g] # <<>>
              /\ \A i, j \in 1..Len(sByHint[g]) :
                    sByHint[g][i].slide_hint = sByHint[g][j].slide_hint
        /\ \A g \in 1..(Len(sByHint) - 1) :
              sByHint[g][Len(sByHint[g])].slide_hint # sByHint[g + 1][1].slide_hint
        /\ Len(sByHint) > 1 =>
              \A i, j \in 1..Len(sEntries) :
                  /\ Cardinality(SlidesWith(sEntries[i])) = 1
                  /\ (SlidesWith(sEntries[i]) = SlidesWith(sEntries[j]))
                        <=> (sEntries[i].slide_hint = sEntries[j].slide_hint)

\* Four entries with the counts 1, 1, 2, 2 came out as two slides of two.
C12_Witness ==
    /\ sPc = "done"
    /\ Len(sEntries) = 4
    /\ [i \in 1..4 |-> sEntries[i].slide_hint] = <<1, 1, 2, 2>>
    /\ Len(sByHint) = 2
    /\ Len(sSlides) = 2
    /\ Len(sSlides[1].lines) = 2

\* The entries cut before each index of `starts`.
CutAt(entries, starts) ==
    LET GroupOf(i) == 1 + Cardinality({ b \in starts : b <= i })
        From(g) == CHOOSE i \in 1..Len(entries) :
                      GroupOf(i) = g /\ \A j \in 1..(i - 1) : GroupOf(j) # g
        To(g) == CHOOSE i \in 1..Len(entries) :
                    GroupOf(i) = g /\ \A j \in (i + 1)..Len(entries) : GroupOf(j) # g
    IN  [g \in 1..(1 + Cardinality(starts)) |-> SubSeq(entries, From(g), To(g))]

FallbackCase == Len(sByHint) = 1 /\ Len(sByHint[1]) > 1

TitleIndexes == { i \in 1..Len(sEntries) : IsTitleType(sEntries[i].text_type) }

\* C13 (as stated): the fallback is applied exactly when the grouping by
\* persistence count gave one group of more than one entry, and it cuts
\* the same entries before every Title/CenterTitle entry other than the
\* first such entry, and nowhere else.
C13_SplitAtLaterTitles ==
    (sPc = "done" /\ sEntries # <<>>) =>
        sGroups = IF FallbackCase
                  THEN CutAt(sEntries, { i \in TitleIndexes :
                                           \E j \in TitleIndexes : j < i })
                  ELSE sByHint

\* C13 (corrected): the fallback is applied exactly when the grouping by
\* persistence count gave one group of more than one entry, and it cuts
\* the same entries before every Title/CenterTitle entry other than the
\* first entry of the list, and nowhere else: the first title starts a
\* group too when untitled text comes before it.
C13_SplitAtTitlesAfterFirstEntry ==
    (sPc = "done" /\ sEntries # <<>>) =>
        sGroups = IF FallbackCase
                  THEN CutAt(sEntries, TitleIndexes \ {1})
                  ELSE sByHint

\* Body, Title, Body, CenterTitle under one persistence count were split
\* into three groups, the first of them the leading body text alone.
C13_Witness ==
    /\ sPc = "done"
    /\ FallbackCase
    /\ [i \in 1..Len(sEntries) |-> sEntries[i].text_type]
          = <<"Body", "Title", "Body", "CenterTitle">>
    /\ Len(sGroups) = 3
    /\ Len(sGroups[1]) = 1

\* C14: the lines of every legacy slide are the entries of its group, each
\* once and no other: first the Title/CenterTitle entries by ascending byte
\* offset, then the remaining entries by ascending byte offset.
C14_TitlesThenRestByOffset ==
    sPc = "done" =>
        /\ Len(sSlides) = Len(sGroups)
        /\ \A k \in 1..Len(sSlides) :
              LET lines == LineTexts(sSlides[k])
                  group == sGroups[k]
                  EntryOf(l) == CHOOSE i \in 1..Len(group) : group[i].text = lines[l]
              IN  /\ Len(lines) = Len(group)
                  /\ \A l \in 1..Len(lines) :
                        \E i \in 1..Len(group) : group[i].text = lines[l]
                  /\ \A l, m \in 1..Len(lines) : l # m => lines[l] # lines[m]
                  /\ \A l, m \in 1..Len(lines) :
                        l < m =>
                          LET a == group[EntryOf(l)]
                              b == group[EntryOf(m)]
                          IN  /\ IsTitleType(b.text_type) => IsTitleType(a.text_type)
                              /\ (IsTitleType(a.text_type) = IsTitleType(b.text_type))
                                    => a.position < b.position

\* A slide made of Body, Title, Body, CenterTitle entries (two persistence
\* counts in the list, so the groups are those of the count): its lines are
\* the two titles, then the two bodies.
C14_Witness ==
    /\ sPc = "done"
    /\ Len(sEntries) = 4
    /\ [i \in 1..4 |-> sEntries[i].text_type] = <<"Body", "Title", "Body", "Title">>
    /\ [i \in 1..4 |-> sEntries[i].slide_hint] = <<0, 1, 1, 1>>
    /\ Len(sSlides) = 2
    /\ LineTexts(sSlides[2]) = <<<<66>>, <<68>>, <<67>>>>

\* C15: the slides of a returned Document are numbered 1, 2, ..., N in
\* sequence order, without gap or duplicate: the legacy slides, of which
\* there is one for every group, and the modern slides, where slide k is
\* the one of the k-th path of the sorted manifest order.
C15_NumbersOneToN ==
    /\ sPc = "done" =>
          /\ Len(sSlides) = Len(sGroups)
          /\ \A k \in 1..Len(sSlides) : sSlides[k].number = k
    /\ xPc = "done" =>
          /\ Len(xSlides) = Len(xOrder)
          /\ \A k \in 1..Len(xSlides) :
                /\ xSlides[k].number = k
                /\ LineTexts(xSlides[k]) = <<xOrder[k]>>

\* A manifest of three slide relationships that is not in sorted order was
\* parsed to the slides 1, 2, 3.
C15_Witness ==
    /\ xPc = "done"
    /\ Len(xSlides) = 3
    /\ xOrder # [k \in 1..Len(CollectSlides(pBuild, xRels)) |-> CollectSlides(pBuild, xRels)[k].path]
    /\ [k \in 1..3 |-> xSlides[k].number] = <<1, 2, 3>>

\* The manifest with its elements rearranged by the permutation p.
Rearranged(rels, p) == [i \in 1..Len(rels) |-> rels[p[i]]]

\* a comes before b by hint, unhinted last, and by path among equals.
BeforeByHintThenPath(a, b) ==
    IF a.order_num # None /\ b.order_num # None
    THEN \/ a.order_num[1] < b.order_num[1]
         \/ a.order_num[1] = b.order_num[1] /\ StrCmp(a.path, b.path) # "Greater"
    ELSE IF a.order_num # None THEN TRUE
    ELSE IF b.order_num # None THEN FALSE
    ELSE StrCmp(a.path, b.path) # "Greater"

\* C17 (as stated): the order of the slides depends only on the set of
\* slide relationships, not on their order in the manifest: every
\* rearrangement of the manifest gives the same order, which is ascending
\* by hint (the trailing digits of the id, else of the target), with the
\* unhinted slides after the hinted ones and ties broken by path.
C17_OrderFromSetAlone ==
    xPc = "done" =>
        /\ \A p \in Permutations(1..Len(xRels)) :
              get_slide_order(pBuild, Rearranged(xRels, p)) = xOrder
        /\ LET sorted == SortSlides(CollectSlides(pBuild, xRels))
           IN  \A i, j \in 1..Len(sorted) :
                   i < j => BeforeByHintThenPath(sorted[i], sorted[j])

\* Two slide relationships with the same hint came out in manifest order,
\* the greater path first.
C17_Witness ==
    /\ xPc = "done"
    /\ Len(xRels) = 2
    /\ Len(xOrder) = 2
    /\ CollectSlides(pBuild, xRels)[1].order_num = CollectSlides(pBuild, xRels)[2].order_num
    /\ CollectSlides(pBuild, xRels)[1].order_num # None
    /\ StrCmp(xOrder[1], xOrder[2]) = "Greater"
    /\ xOrder[1] = CollectSlides(pBuild, xRels)[1].path

\* The shape elements of hShapes that give a line, by index.
Surviving == { i \in 1..Len(hShapes) : TrimStr(hShapes[i].text) # <<>> }

\* The shape element a line came from (the texts of the elements differ).
ShapeOfLine(l) ==
    CHOOSE i \in Surviving : TrimStr(hShapes[i].text) = hLines[l].text

\* The place of a shape element among the lines.
LineOfShape(i) ==
    CHOOSE l \in 1..Len(hLines) : hLines[l].text = TrimStr(hShapes[i].text)

Placed(i) == hShapes[i].off_x # None /\ hShapes[i].off_y # None
Unplaced(i) == hShapes[i].off_x = None /\ hShapes[i].off_y = None

\* Shape elements i < j with no surviving element between them.
Neighbours(i, j) ==
    /\ i \in Surviving /\ j \in Surviving /\ i < j
    /\ \A m \in Surviving : ~(i < m /\ m < j)

\* C18 (as stated): the lines of a modern slide are ordered by (y, x)
\* ascending, shapes of equal (y, x) keep their discovery order, and a
\* shape without offset coordinates stays in discovery order relative to
\* its neighbours.
C18_PositionThenDiscovery ==
    hPc = "done" =>
        /\ Len(hLines) = Cardinality(Surviving)
        /\ \A l, m \in 1..Len(hLines) :
              (l < m /\ Placed(ShapeOfLine(l)) /\ Placed(ShapeOfLine(m))) =>
                  LET a == hShapes[ShapeOfLine(l)]
                      b == hShapes[ShapeOfLine(m)]
                  IN  \/ a.off_y[1] < b.off_y[1]
                      \/ a.off_y[1] = b.off_y[1] /\ a.off_x[1] < b.off_x[1]
                      \/ /\ a.off_y = b.off_y /\ a.off_x = b.off_x
                         /\ ShapeOfLine(l) < ShapeOfLine(m)
        /\ \A i, j \in Surviving :
              (Neighbours(i, j) /\ (Unplaced(i) \/ Unplaced(j))) =>
                  LineOfShape(i) < LineOfShape(j)

\* A shape at (100, 100) followed by a shape without offset: the second is
\* the first line.
C18_Witness ==
    /\ hPc = "done"
    /\ Len(hShapes) = 2
    /\ hShapes[1].off_x = Some(100) /\ hShapes[1].off_y = Some(100)
    /\ Unplaced(2)
    /\ Len(hLines) = 2
    /\ hLines[1].text = <<66>>
    /\ hLines[1].y_position = Some(0)
    /\ hLines[2].text = <<65>>

-----------------------------------------------------------------------------
(* Properties of the legacy parse after validation, checked under SpecPpt  *)

\* The extraction pass has begun: validation returned Ok before.
ExtractionBegun == pPc = "parse" \/ pETrace # <<>>

\* C16 (as stated): once validation has passed, the legacy parse does not
\* fail: the extraction neither returns an error nor panics, and a parse
\* that ends returns Ok, with zero slides if every text run was filtered
\* out.
C16_NoFailureAfterValidation ==
    ExtractionBegun =>
        /\ pResult \in {"none", "Ok"}
        /\ pPc \in {"parse", "done"}

\* On wasm32 with wrapping arithmetic a stream passed validation and the
\* extraction pass panicked at a text record.
C16_Witness ==
    /\ pBuild = "usize32_wrap"
    /\ pPc = "panicked"
    /\ pResult = "Panic"
    /\ pETrace # <<>>
    /\ pSeen # <<>>
    /\ pSeen[Len(pSeen)].idx = Len(pETrace)

-----------------------------------------------------------------------------
(* Properties of the text normalizer, checked under SpecNorm               *)

\* C19 (as stated): normalize_line is idempotent under either setting of
\* preserve_line_breaks: applied to its own output it returns that output.
C19_Idempotent ==
    nPc = "twice" => nOut2 = nOut

\* With line breaks preserved, "a" followed by two line feeds gave "a" and
\* one line feed, and that gave "a".
C19_Witness ==
    /\ nPc = "twice"
    /\ nPreserve = TRUE
    /\ nText = <<97, 10, 10>>
    /\ nOut = <<97, 10>>
    /\ nOut2 = <<97>>

\* What the statement makes of the character at index i of the text (line
\* endings normalized): an apostrophe-class character becomes ' between two
\* letters and nothing otherwise; other characters are not its subject.
RECURSIVE ApostrophesBetweenLetters(_, _)
ApostrophesBetweenLetters(chars, i) ==
    IF i > Len(chars) THEN <<>>
    ELSE LET c == chars[i]
             between == /\ i > 1 /\ IsAlphabetic(chars[i - 1])
                        /\ i < Len(chars) /\ IsAlphabetic(chars[i + 1])
         IN  (IF c \in {39, 8216, 8217, 96}
              THEN (IF between THEN <<39>> ELSE <<>>)
              ELSE IF c \in PUNCTUATION_CHARS THEN <<>>
              ELSE <<c>>)
             \o ApostrophesBetweenLetters(chars, i + 1)

\* C20 (as stated): each of the characters ', U+2018, U+2019 and ` comes
\* out as a straight apostrophe if it stands between two alphabetic
\* characters of the input and is dropped otherwise, so every apostrophe of
\* the output has a letter on both sides.
C20_ApostropheClass ==
    nPc \in {"once", "twice"} =>
        /\ nStage = ApostrophesBetweenLetters(NormalizeLineEndings(nText), 1)
        /\ \A i \in 1..Len(nOut) :
              nOut[i] = 39 =>
                  /\ i > 1 /\ IsAlphabetic(nOut[i - 1])
                  /\ i < Len(nOut) /\ IsAlphabetic(nOut[i + 1])
        /\ \A i \in 1..Len(nOut) : nOut[i] \notin {8216, 8217, 96}

\* A backtick between two letters was dropped: "a`a" gave "aa".
C20_Witness ==
    /\ nPc = "once"
    /\ nText = <<97, 96, 97>>
    /\ nStage = <<97, 97>>
    /\ nOut = <<97, 97>>

\* The characters the statement names as removed: those of the list and the
\* typographic double quotation marks U+201C and U+201D.
RemovedPunctuation == PUNCTUATION_CHARS \cup {8220, 8221}

\* C21 (as stated): the output of normalize_line holds none of the removed
\* punctuation characters: no standard or typographic quotation mark
\* (U+201C and U+201D among them), guillemet, bracket, dash, slash or listed
\* symbol.
C21_NoPunctuationSurvives ==
    nPc \in {"once", "twice"} =>
        \A i \in 1..Len(nOut) : nOut[i] \notin RemovedPunctuation

\* A left double quotation mark between two letters came through.
C21_Witness ==
    /\ nPc = "once"
    /\ nText = <<97, 8220, 97>>
    /\ nOut = <<97, 8220, 97>>

-----------------------------------------------------------------------------
(* Properties of the similarity score, checked under SpecSim               *)

\* Two fractions of equal value.
SameScore(x, y) == x.num * y.den = y.num * x.den

ScoreIs(x, n) == x.num = n * x.den

OneContainsOther == Contains(mA, mB) \/ Contains(mB, mA)

\* C24 (as stated): the similarity is symmetric; identical strings score
\* 1.0, strings with disjoint word sets score 0.0, and two strings made of
\* the same set of words score 1.0 in whatever order the words stand.
C24_WordSetScore ==
    mPc = "done" =>
        /\ SameScore(mSim, calculate_similarity(mB, mA))
        /\ mA = mB => ScoreIs(mSim, 1)
        /\ WordSet(mA) \cap WordSet(mB) = {} => ScoreIs(mSim, 0)
        /\ WordSet(mA) = WordSet(mB) => ScoreIs(mSim, 1)

\* C24 (corrected): the similarity is symmetric; identical non-empty
\* strings score 1.0 and an empty string scores 0.0 against everything;
\* when one of two different strings contains the other as a substring the
\* score is the ratio of their lengths, whatever their words; otherwise
\* disjoint word sets score 0.0 and equal word sets score 1.0 in whatever
\* order the words stand.
C24_WordSetScoreUnlessContained ==
    mPc = "done" =>
        /\ SameScore(mSim, calculate_similarity(mB, mA))
        /\ (mA = <<>> \/ mB = <<>>) => ScoreIs(mSim, 0)
        /\ (mA = mB /\ mA # <<>>) => ScoreIs(mSim, 1)
        /\ (mA # <<>> /\ mB # <<>> /\ mA # mB) =>
              IF OneContainsOther
              THEN SameScore(mSim, [num |-> Min(StrLen(mA), StrLen(mB)),
                                    den |-> Max(StrLen(mA), StrLen(mB))])
              ELSE /\ WordSet(mA) \cap WordSet(mB) = {} => ScoreIs(mSim, 0)
                   /\ WordSet(mA) = WordSet(mB) => ScoreIs(mSim, 1)

\* "a b" against "b a" scored 1.
C24_Witness ==
    /\ mPc = "done"
    /\ mA = <<97, 32, 98>>
    /\ mB = <<98, 32, 97>>
    /\ ScoreIs(mSim, 1)

-----------------------------------------------------------------------------
(* Properties of title detection, checked under SpecTitle                  *)

\* A run qualifies as the title: its comparison-normalized text has 2 to 60
\* characters and scores at least 0.7 against the normalized filename.
QualifiesAsTitle(text) ==
    LET normalized_text == normalize_for_comparison(text)
        score == calculate_similarity(normalized_text,
                                      extract_song_name_from_filename(wFile))
    IN  /\ Len(normalized_text) >= 2
        /\ Len(normalized_text) <= 60
        /\ score.num * 10 >= 7 * score.den

QualifyingRuns ==
    IF wSlides = <<>> THEN {}
    ELSE { r \in 1..Len(wSlides[1]) : QualifiesAsTitle(wSlides[1][r]) }

\* C22: at most one title is detected per document, and it is the first
\* run, in order, of the first slide whose comparison-normalized length is
\* between 2 and 60 characters and whose similarity to the normalized
\* filename is at least 0.7; no run of a later slide and no later
\* qualifying run of the first slide is chosen.
C22_FirstQualifyingRunOfFirstSlide ==
    wPc = "done" =>
        IF QualifyingRuns = {}
        THEN wTitle = None /\ wIdx = <<>>
        ELSE /\ wIdx = <<(CHOOSE r \in QualifyingRuns :
                             \A q \in QualifyingRuns : r <= q) - 1>>
             /\ wTitle = Some(normalize_line(wPreserve,
                                  TrimStr(wSlides[1][wIdx[1] + 1])))

\* The one-character run (e with acute accent) of a document named after
\* it is returned as the title.
C22_Witness ==
    /\ wPc = "done"
    /\ wSlides = <<<<<<233>>>>>>
    /\ wFile = <<233, 46, 112, 112, 116, 120>>
    /\ wTitle = Some(<<233>>)

\* The runs of the document in slide order then run order, as [slide, run].
RECURSIVE RunsOfSlide(_, _)
RunsOfSlide(s, r) ==
    IF r > Len(wSlides[s]) THEN <<>>
    ELSE <<[slide |-> s, run |-> r]>> \o RunsOfSlide(s, r + 1)

RunsInOrder == Flatten([s \in 1..Len(wSlides) |-> RunsOfSlide(s, 1)])

IsTitleRun(p) == wIdx # <<>> /\ p.slide = 1 /\ p.run = wIdx[1] + 1

LinesOfRuns(runs) ==
    Flatten([k \in 1..Len(runs) |->
                normalize_to_lines(wPreserve, wSlides[runs[k].slide][runs[k].run])])

\* C23: the returned lines are the normalized non-empty lines of every run
\* but the detected title run, in slide order then run order; without a
\* title they are the lines normalize_presentation returns, and a run of a
\* later slide is kept even when its text is that of the title run.
C23_AllRunsButTheTitle ==
    wPc = "done" =>
        /\ wLines = LinesOfRuns(SelectSeq(RunsInOrder, LAMBDA p : ~IsTitleRun(p)))
        /\ wTitle = None => wLines = normalize_presentation(wPreserve, wSlides)

\* "Ab" is the title of the first slide; the two lines of its other run and
\* the second slide's "Ab" are returned.
C23_Witness ==
    /\ wPc = "done"
    /\ wFile = <<97, 98, 46, 112, 112, 116, 120>>
    /\ wSlides = << <<<<65, 98>>, <<99, 10, 100>>>>, <<<<65, 98>>>> >>
    /\ wPreserve
    /\ wTitle = Some(<<65, 98>>)
    /\ wLines = << <<99>>, <<100>>, <<65, 98>> >>

-----------------------------------------------------------------------------
(* Properties of the ProPresenter output, checked under SpecFmt            *)

\* The size of the blocks: a lines_per_slide near usize::MAX cuts as the
\* number of lines does.
PerSlide == IF fN = 0 THEN 1 ELSE IF fN < 0 THEN Max(Len(fLines), 1) ELSE fN

BlockCount == (Len(fLines) + PerSlide - 1) \div PerSlide

\* The k-th block of PerSlide lines; the last one ends with the input.
Block(k) == SubSeq(fLines, (k - 1) * PerSlide + 1, Min(k * PerSlide, Len(fLines)))

\* C25: the formatter cuts the lines, in order, into consecutive blocks of
\* exactly lines_per_slide lines, the last one possibly shorter and none
\* empty, joins the lines of a block with one newline and the blocks with
\* one blank line; a lines_per_slide of 0 counts as 1 and no lines give the
\* empty string.
C25_BlocksOfLinesPerSlide ==
    fPc \in {"formatted", "format_panicked"} =>
        /\ fPc = "formatted"
        /\ fText = JoinWith(<<10, 10>>,
                       [k \in 1..BlockCount |-> JoinWith(<<10>>, Block(k))])
        /\ \A k \in 1..BlockCount :
              /\ Block(k) # <<>>
              /\ k < BlockCount => Len(Block(k)) = PerSlide
        /\ fLines = <<>> => fText = <<>>

\* Three lines with a lines_per_slide of 0: three blocks of one line.
C25_Witness ==
    /\ fPc = "formatted"
    /\ fN = 0
    /\ fLines = << <<97>>, <<98, 32, 99>>, <<97>> >>
    /\ fText = <<97, 10, 10, 98, 32, 99, 10, 10, 97>>

\* The number of blocks of a text: one more than its blank lines, none for
\* the empty text.
BlankLines(text) ==
    Cardinality({ i \in 1..(Len(text) - 1) : text[i] = 10 /\ text[i + 1] = 10 })

BlocksIn(text) == IF text = <<>> THEN 0 ELSE BlankLines(text) + 1

\* C30: for every list of lines, every optional title and every
\* lines_per_slide including 0, format_for_propresenter returns normally
\* and its slide_count is the number of blocks of the returned text: one
\* for a title that is not empty plus the lyric blocks.
C30_ReturnsBlockCount ==
    fPc \in {"returned", "panicked"} =>
        /\ fPc = "returned"
        /\ fCount = BlocksIn(fText)

\* One line with a lines_per_slide of 0: the call panics.
C30_Witness ==
    /\ fPc = "panicked"
    /\ fN = 0
    /\ fLines = << <<97>> >>

-----------------------------------------------------------------------------
(* Properties of shape extraction, checked under SpecXml                   *)

IsShapeStart(i) == eXml[i].kind = "Start" /\ eXml[i].name \in {"sp", "pic"}

IsShapeEnd(i) == eXml[i].kind = "End" /\ eXml[i].name \in {"sp", "pic"}

\* The event that closes the sp/pic element opened at event i.
ShapeEnd(i) ==
    CHOOSE j \in (i + 1)..Len(eXml) :
        IsShapeEnd(j) /\ \A k \in (i + 1)..(j - 1) : ~IsShapeEnd(k)

\* The text events from event i to event j, in order.
RECURSIVE TextsWithin(_, _)
TextsWithin(i, j) ==
    IF i > j THEN <<>>
    ELSE (IF eXml[i].kind = "Text" THEN <<eXml[i].text>> ELSE <<>>)
         \o TextsWithin(i + 1, j)

\* C29: the text of a recorded shape is made only of text found inside the
\* shape's own sp/pic element: the text of a paragraph outside every
\* sp/pic element is not attributed to a later shape, and the text of one
\* shape does not carry over into the next.
C29_OwnTextOnly ==
    ePc = "done" =>
        \A k \in 1..Len(eShapes) :
            \E i \in 1..Len(eXml) :
                /\ IsShapeStart(i)
                /\ eShapes[k].text = JoinWith(<<10>>, TextsWithin(i, ShapeEnd(i)))

\* A table cell "A" before a shape "B": the shape is recorded with the
\* text "A", line feed, "B".
C29_Witness ==
    /\ ePc = "done"
    /\ eXml = SlideEvents(<<"cell", "text">>)
    /\ eShapes = <<[text |-> <<65, 10, 66>>, x |-> 0, y |-> 0]>>

-----------------------------------------------------------------------------
(* Properties of the two record traversals, checked under SpecPpt          *)

\* The step reads a malformed record and adds it to the trace.
ReadsMalformed(trace, after) ==
    /\ Len(after) = Len(trace) + 1
    /\ after[Len(after)].malformed

\* The calls below the innermost one whose loop has a record left to read.
LiveParents ==
    { k \in 1..(Len(pStack) - 1) : pStack[k].pos + 8 <= pStack[k].end }

\* After the malformed record that ends the trace `after`, the next record
\* to be read is the one that follows a container around the malformed
\* record.
ResumesAfterContainer(trace, after) ==
    LET bad == after[Len(after)]
    IN  pStack' # <<>> =>
            \E j \in 1..Len(trace) :
                /\ trace[j].rec_ver = 15
                /\ ~trace[j].malformed
                /\ trace[j].content_start <= bad.pos
                /\ bad.pos < trace[j].content_end
                /\ pStack'[Len(pStack')].pos = trace[j].content_end

\* C26: a malformed record ends the traversal of the rest of its own scope
\* only: in both passes the enclosing scopes go on with the records that
\* follow the container, the pass does not fail, and the text entries
\* collected before the malformed record are kept.
C26_MalformedEndsItsScopeOnly ==
    [][ (ReadsMalformed(pVTrace, pVTrace') \/ ReadsMalformed(pETrace, pETrace')) =>
            /\ ReadsMalformed(pVTrace, pVTrace') =>
                   ResumesAfterContainer(pVTrace, pVTrace')
            /\ ReadsMalformed(pETrace, pETrace') =>
                   ResumesAfterContainer(pETrace, pETrace')
            /\ pPc' = pPc
            /\ pEntries' = pEntries
            /\ pStack' = IF LiveParents = {} THEN <<>>
                         ELSE SubSeq(pStack, 1,
                                  CHOOSE k \in LiveParents :
                                      \A j \in LiveParents : j <= k) ]_vars

\* The extraction has read a malformed record inside a container, then the
\* container that follows it, and holds the entry collected before them.
C26_Witness ==
    /\ pPc = "parse"
    /\ pEntries # <<>>
    /\ \E i \in 1..(Len(pETrace) - 1) :
          /\ pETrace[i].malformed
          /\ pETrace[i + 1].rec_ver = 15
          /\ pETrace[i + 1].pos > pETrace[i].pos
          /\ pEntries[1].position < pETrace[i].pos

BothTraces == { pVTrace, pETrace }

\* C27: both traversals terminate, whatever the declared body length: the
\* end offset position + 8 + length is computed without wrap-around (and
\* without failure) on a 32-bit word too, every record moves the position
\* forward by at least 8, and no pass runs out of steps.
C27_PositionsAdvance ==
    \A trace \in BothTraces :
        /\ pPc \in {"scan", "parse"} => Len(trace) < MaxSteps
        /\ \A i \in 1..Len(trace) :
              /\ ~trace[i].panic
              /\ trace[i].content_end
                     = ExactSum(trace[i].content_start, trace[i].rec_len)
              /\ trace[i].content_end >= trace[i].pos + 8

\* On the 32-bit build that wraps, a record declaring 0xFFFFFFF8 bytes ends
\* where it starts: the validation pass reads it again and again.
C27_Witness ==
    /\ pBuild = "usize32_wrap"
    /\ pPc = "scan"
    /\ Len(pVTrace) = MaxSteps
    /\ pVTrace[MaxSteps].content_end = pVTrace[MaxSteps].pos
    /\ pVTrace[MaxSteps - 1].pos = pVTrace[MaxSteps].pos

\* The Slide-Persistence markers read before step idx of the extraction.
PersistBefore(idx) ==
    Cardinality({ j \in 1..(idx - 1) :
                    /\ ~pETrace[j].panic
                    /\ ~pETrace[j].malformed
                    /\ pETrace[j].rec_type = RT_SLIDE_PERSIST_ATOM })

\* C28: every text entry carries the purpose declared by the last
\* Text-Header record with a body of at least 4 bytes read before it, Body
\* when there is none, and the number of persistence markers read before
\* it; neither is reset at the end of a container, and the counts of
\* successive entries never decrease.
C28_PurposeAndCountCarryOver ==
    pPc \in {"parse", "done"} =>
        /\ Len(pEntries) = Len(KeptRuns)
        /\ \A k \in 1..Len(pEntries) :
              /\ pEntries[k].position = KeptRuns[k].pos
              /\ pEntries[k].text_type = PurposeAt(KeptRuns[k].idx)
              /\ pEntries[k].slide_hint = PersistBefore(KeptRuns[k].idx)
              /\ k > 1 => pEntries[k - 1].slide_hint <= pEntries[k].slide_hint

\* A text record, then a container with a Title Text-Header and a
\* persistence marker, then a text record after the container's end: the
\* second entry has the purpose Title and the count 1.
C28_Witness ==
    /\ pPc = "done"
    /\ Len(pEntries) = 2
    /\ pEntries[1].text_type = "Body"
    /\ pEntries[1].slide_hint = 0
    /\ pEntries[2].text_type = "Title"
    /\ pEntries[2].slide_hint = 1
    /\ \E i \in 1..Len(pETrace) :
          /\ pETrace[i].rec_ver = 15
          /\ pETrace[i].rec_type = RT_SLIDE
          /\ pEntries[1].position < pETrace[i].pos
          /\ pEntries[2].position = pETrace[i].content_end

=============================================================================
